---- MODULE Spec2Model ----
(***************************************************************************)
(* Model of the agent memory store (base_agent/sql_memory.py,              *)
(* base_agent/memory_nodes.py), its task ledger, the command interpreter   *)
(* (base_agent/dialogue_objects/interpreter.py) and the Loop task          *)
(* (locobot/agent/tasks.py).                                               *)
(*                                                                         *)
(* Memids (uuid4 hex strings in the code) are integers drawn from a        *)
(* counter, so every generated memid is fresh.  SQL tables are functions   *)
(* from the primary key to the row; the Triples table, which is never      *)
(* read by key, is the sequence of its rows in insertion order.            *)
(***************************************************************************)
EXTENDS Integers, Sequences, FiniteSets, TLC

\* ------------------------------------------------------------ bounds
MaxTime == 2
MaxTasks == 3
MaxChats == 1
MaxActions == 2     \* length of a command's action_sequence
MaxSteps == 2       \* invocations of step on one interpreter
MaxNewTasks == 2    \* length of the list a Loop's new_tasks_fn returns
MaxEarlierTasks == 2 \* root tasks pushed before an UNDO command arrives
MaxQueryTasks == 2  \* tasks in the ledger the queries are run on
MaxSnapshots == 2   \* snapshots in the store
MaxTriples == 4     \* relations in the Triples table, the two of the start included
MaxTripleNodes == 1 \* tasks, and snapshots, in the store the triples are added to
MaxForgets == 2     \* memories forgotten
MaxLinks == 3       \* _has_parent_task relations in the store
MaxStopActions == 3 \* length of a command made of MOVE, STOP and RESUME

\* ------------------------------------------------------ the store's state
VARIABLES
    time,   \* AgentMemory.time: the logical clock
    db,     \* AgentMemory.db: the tables, and the uuid generator
    op,     \* the store operation called last
    arg,    \* the arguments of that call, for the queries
    ret     \* what that call returned or raised

storeVars == <<time, db, op, arg, ret>>

\* ------------------------------------------------ the interpreter's state
VARIABLES
    action_dict,        \* Interpreter.action_dict: the structured command
    finished,           \* Interpreter.finished
    loop_data,          \* Interpreter.loop_data
    archived_loop_data, \* Interpreter.archived_loop_data
    pc,                 \* where the interpreter is in step
    todo,               \* step: the actions the for loop has yet to handle
    response,           \* step: what the last handler returned
    result,             \* what step returned or raised
    calls,              \* the handlers step has invoked, by action
    pushed,             \* the task rows append_new_task created in this step
    nstep,              \* how many times step was invoked
    caught,             \* the exception step caught in this invocation
    task_objects,       \* Interpreter.task_objects: the keys of the task table
    dialogue_stack,     \* what the interpreter appended to the dialogue stack
    dobj                \* what handle_logical_form returned or raised

\* ------------------------------------------- threads sharing the store
VARIABLES
    poppers             \* each thread's position in task_stack_pop, and its mem

\* What step leaves alone.
dialogueVars == <<task_objects, dobj, poppers>>
interpVars == <<action_dict, finished, loop_data, archived_loop_data, pc, todo,
                response, result, calls, pushed, nstep, caught, task_objects,
                dialogue_stack, dobj, poppers>>
vars == <<time, db, op, arg, ret, action_dict, finished, loop_data, archived_loop_data,
          pc, todo, response, result, calls, pushed, nstep, caught, task_objects,
          dialogue_stack, dobj, poppers>>

self_memid == 0
NoMemid == 0 - 1
player_memid == 0 - 2   \* the memid of a speaker other than the agent
NoText == ""
TaskNames == {"Move", "Loop"}

\* A call's outcome: kind is the Python type of the value returned or of the
\* exception raised; memid, flag and list carry the value where the kind has one.
Ret(kind, memid, flag) == [kind |-> kind, memid |-> memid, flag |-> flag, list |-> <<>>]
RetList(l) == [kind |-> "list", memid |-> NoMemid, flag |-> FALSE, list |-> l]
RetNone == Ret("None", NoMemid, FALSE)
RetTaskNode(memid) == Ret("TaskNode", memid, FALSE)
RetBool(b) == Ret("bool", NoMemid, b)
RetRaise(exc) == Ret(exc, NoMemid, FALSE)

\* A call's arguments: memid is the node the method is called on (subj for
\* the triple store), flag is include_root or hard, names is cls_names, name
\* is action_name, pred_text or the node's class, recency is recency or
\* time_window; obj, subj_text and obj_text are the triple store's.
NoRecency == 0 - 1
NoArg == [memid |-> NoMemid, flag |-> FALSE, names |-> {}, name |-> NoText,
          recency |-> NoRecency, obj |-> NoMemid, subj_text |-> NoText,
          obj_text |-> NoText]

\* ------------------------------------------------------------------ Time
\* Time.add_tick: the clock is logical and moves only on request.
Time_add_tick(t, ticks) == t + ticks

\* AgentMemory.add_tick(ticks=1) and AgentMemory.get_time
add_tick(t, ticks) == Time_add_tick(t, ticks)
get_time(t) == t

\* ------------------------------------------------------------ MemoryNode
\* MemoryNode.new: a Memories row with a fresh memid; the memid is d.uuid.
MemoryNode_new(d, node_type, t, snapshot) ==
    [d EXCEPT !.Memories = @ @@ (d.uuid :> [node_type |-> node_type,
                                            create_time |-> t,
                                            updated_time |-> t,
                                            attended_time |-> t,
                                            is_snapshot |-> snapshot]),
              !.uuid = @ + 1]

\* NamedAbstractionNode.create: reuse the row of that name or insert one.
\* Returns the store and the memid.
NamedAbstractionNode_create(d, name, t) ==
    LET found == {m \in DOMAIN d.NamedAbstractions : d.NamedAbstractions[m] = name}
    IN  IF found # {}
        THEN [db |-> d, memid |-> CHOOSE m \in found : \A n \in found : m <= n]
        ELSE [db |-> [MemoryNode_new(d, "NamedAbstraction", t, FALSE)
                        EXCEPT !.NamedAbstractions = @ @@ (d.uuid :> name)],
              memid |-> d.uuid]

\* The assertions of add_triple without the two that forbid a memid
\* together with a text.
add_triple_ok_either(subj, obj, subj_text, obj_text) ==
    /\ (subj # NoMemid \/ subj_text # NoText)
    /\ (obj # NoMemid \/ obj_text # NoText)

\* AgentMemory.add_triple, for a call that passes its four assertions.
add_triple_ok(subj, obj, subj_text, obj_text) ==
    /\ (subj # NoMemid \/ subj_text # NoText)
    /\ (obj # NoMemid \/ obj_text # NoText)
    /\ ~(subj # NoMemid /\ subj_text # NoText)
    /\ ~(obj # NoMemid /\ obj_text # NoText)

add_triple(d, t, subj, obj, subj_text, pred_text, obj_text) ==
    LET p == NamedAbstractionNode_create(d, pred_text, t)
        o == IF obj = NoMemid
             THEN NamedAbstractionNode_create(p.db, obj_text, t)
             ELSE [db |-> p.db, memid |-> obj]
        s == IF subj = NoMemid
             THEN NamedAbstractionNode_create(o.db, subj_text, t)
             ELSE [db |-> o.db, memid |-> subj]
    IN  [s.db EXCEPT !.Triples = Append(@, [subj |-> s.memid,
                                            subj_text |-> subj_text,
                                            pred |-> p.memid,
                                            pred_text |-> pred_text,
                                            obj |-> o.memid,
                                            obj_text |-> obj_text,
                                            confidence |-> 1])]

\* AgentMemory.tag
tag(d, t, subj_memid, tag_text) ==
    add_triple(d, t, subj_memid, NoMemid, NoText, "has_tag", tag_text)

\* AgentMemory.__init__: empty tables, the Self row, its two tags.
EmptyDb ==
    [Memories |-> (self_memid :> [node_type |-> "Self", create_time |-> 0,
                                  updated_time |-> 0, attended_time |-> 0 - 1,
                                  is_snapshot |-> FALSE]),
     Tasks |-> <<>>,
     Triples |-> <<>>,
     NamedAbstractions |-> <<>>,
     Chats |-> <<>>,
     Programs |-> <<>>,
     uuid |-> self_memid + 1]

AgentMemory_init == tag(tag(EmptyDb, 0, self_memid, "_agent"), 0, self_memid, "_self")

\* ---------------------------------------------------------------- Chats
\* ChatNode.create (through AgentMemory.add_chat)
ChatNode_create(d, t, speaker, chat) ==
    [MemoryNode_new(d, "Time", t, FALSE)
        EXCEPT !.Chats = @ @@ (d.uuid :> [speaker |-> speaker, chat |-> chat, time |-> t])]

\* get_most_recent_incoming_chat without "speaker != ?".
get_most_recent_incoming_chat_any_speaker(d, after) ==
    LET rows == {m \in DOMAIN d.Chats : d.Chats[m].time >= after}
    IN  {m \in rows : \A n \in rows : d.Chats[n].time <= d.Chats[m].time}

\* AgentMemory.get_most_recent_incoming_chat: the rows the query may return
\* first (ORDER BY time DESC LIMIT 1 leaves the order of equal times open).
get_most_recent_incoming_chat(d, after) ==
    LET rows == {m \in DOMAIN d.Chats :
                    d.Chats[m].speaker # self_memid /\ d.Chats[m].time >= after}
    IN  {m \in rows : \A n \in rows : d.Chats[n].time <= d.Chats[m].time}

\* ------------------------------------------------------------- Programs
\* ProgramNode.create without its INSERT INTO Programs.
ProgramNode_create_no_row(d, t, logical_form) == MemoryNode_new(d, "Program", t, FALSE)

\* ProgramNode.create: the Memories row and the Programs row, which holds the
\* text of the logical form as it is at the call.
ProgramNode_create(d, t, logical_form) ==
    [MemoryNode_new(d, "Program", t, FALSE)
        EXCEPT !.Programs = @ @@ (d.uuid :> logical_form)]

\* ---------------------------------------------------------------- Tasks
\* The column defaults of the Tasks table.
DefaultPaused == FALSE
DefaultFinishedAt == 0 - 1

\* TaskNode.create: the Memories row and the Tasks row; memid is d.uuid.
TaskNode_create(d, t, task) ==
    [MemoryNode_new(d, "Task", t, FALSE)
        EXCEPT !.Tasks = @ @@ (d.uuid :> [action_name |-> task,
                                          pickled |-> task,
                                          paused |-> DefaultPaused,
                                          created_at |-> t,
                                          finished_at |-> DefaultFinishedAt])]

\* task_stack_push writing the parent relation the wrong way round.
task_stack_push_reversed(d, t, task, parent_memid, chat_effect, chat) ==
    LET memid == d.uuid
        d1 == TaskNode_create(d, t, task)
        d2 == IF parent_memid # NoMemid
              THEN add_triple(d1, t, parent_memid, memid, NoText, "_has_parent_task", NoText)
              ELSE d1
    IN  IF ~chat_effect THEN [db |-> d2, ret |-> RetTaskNode(memid)]
        ELSE IF chat = NoMemid THEN [db |-> d2, ret |-> RetRaise("AssertionError")]
        ELSE [db |-> add_triple(d2, t, chat, memid, NoText, "chat_effect_", NoText),
              ret |-> RetTaskNode(memid)]

\* AgentMemory.task_stack_push.  chat is the row get_most_recent_incoming_chat
\* returned, NoMemid for None.  Each write is committed as it is made, so the
\* failed assertion leaves the task row and the parent triple behind.
task_stack_push(d, t, task, parent_memid, chat_effect, chat) ==
    LET memid == d.uuid
        d1 == TaskNode_create(d, t, task)
        d2 == IF parent_memid # NoMemid
              THEN add_triple(d1, t, memid, parent_memid, NoText, "_has_parent_task", NoText)
              ELSE d1
    IN  IF ~chat_effect THEN [db |-> d2, ret |-> RetTaskNode(memid)]
        ELSE IF chat = NoMemid THEN [db |-> d2, ret |-> RetRaise("AssertionError")]
        ELSE [db |-> add_triple(d2, t, chat, memid, NoText, "chat_effect_", NoText),
              ret |-> RetTaskNode(memid)]

\* The chat a push with chat_effect reads: a most recent incoming chat, or
\* NoMemid when there is none.
PushChats(d) ==
    IF get_most_recent_incoming_chat(d, 0 - 1) = {} THEN {NoMemid}
    ELSE get_most_recent_incoming_chat(d, 0 - 1)

\* task_stack_peek ordering by created_at ascending.
task_stack_peek_asc(d) ==
    LET rows == {m \in DOMAIN d.Tasks :
                    d.Tasks[m].finished_at < 0 /\ d.Tasks[m].paused = FALSE}
    IN  {m \in rows : \A n \in rows : d.Tasks[m].created_at <= d.Tasks[n].created_at}

\* task_stack_peek without "AND paused = 0".
task_stack_peek_paused(d) ==
    LET rows == {m \in DOMAIN d.Tasks : d.Tasks[m].finished_at < 0}
    IN  {m \in rows : \A n \in rows : d.Tasks[n].created_at <= d.Tasks[m].created_at}

\* AgentMemory.task_stack_peek: the rows its query may return (WHERE
\* finished_at < 0 AND paused = 0 ORDER BY created_at DESC LIMIT 1).
task_stack_peek(d) ==
    LET rows == {m \in DOMAIN d.Tasks :
                    d.Tasks[m].finished_at < 0 /\ d.Tasks[m].paused = FALSE}
    IN  {m \in rows : \A n \in rows : d.Tasks[n].created_at <= d.Tasks[m].created_at}

\* AgentMemory.task_stack_pop, given the row mem that its peek returned.
task_stack_pop(d, t, mem) ==
    IF mem = NoMemid
    THEN [db |-> d, ret |-> RetRaise("ValueError")]
    ELSE [db |-> [d EXCEPT !.Tasks[mem].finished_at = t], ret |-> RetTaskNode(mem)]

\* The row a peek returns: one of task_stack_peek's rows, NoMemid for None.
PeekRows(d) == IF task_stack_peek(d) = {} THEN {NoMemid} ELSE task_stack_peek(d)

\* task_stack_pause without its WHERE clause.
task_stack_pause_all_rows(d) ==
    [db |-> [d EXCEPT !.Tasks = [m \in DOMAIN d.Tasks |->
                        [d.Tasks[m] EXCEPT !.paused = TRUE]]],
     ret |-> RetBool(Cardinality(DOMAIN d.Tasks) > 0)]

\* task_stack_pause pausing only the top of the stack.
task_stack_pause_top(d) ==
    LET rows == task_stack_peek(d)
    IN  [db |-> [d EXCEPT !.Tasks = [m \in DOMAIN d.Tasks |->
                        IF m \in rows THEN [d.Tasks[m] EXCEPT !.paused = TRUE]
                        ELSE d.Tasks[m]]],
         ret |-> RetBool(Cardinality(rows) > 0)]

\* AgentMemory.task_stack_pause: UPDATE Tasks SET paused=1 WHERE finished_at < 0;
\* the row count of an UPDATE is the number of rows its WHERE matches.
task_stack_pause(d) ==
    LET rows == {m \in DOMAIN d.Tasks : d.Tasks[m].finished_at < 0}
    IN  [db |-> [d EXCEPT !.Tasks = [m \in DOMAIN d.Tasks |->
                        IF m \in rows THEN [d.Tasks[m] EXCEPT !.paused = TRUE]
                        ELSE d.Tasks[m]]],
         ret |-> RetBool(Cardinality(rows) > 0)]

\* AgentMemory.task_stack_clear: DELETE FROM Tasks WHERE finished_at < 0
task_stack_clear(d) ==
    LET keep == {m \in DOMAIN d.Tasks : ~(d.Tasks[m].finished_at < 0)}
    IN  [d EXCEPT !.Tasks = [m \in keep |-> d.Tasks[m]]]

\* AgentMemory.task_stack_resume: UPDATE Tasks SET paused=0 (every row)
task_stack_resume(d) ==
    LET rows == DOMAIN d.Tasks
    IN  [db |-> [d EXCEPT !.Tasks = [m \in DOMAIN d.Tasks |->
                        [d.Tasks[m] EXCEPT !.paused = FALSE]]],
         ret |-> RetBool(Cardinality(rows) > 0)]

\* The orders in which a query may return the rows of set S under ORDER BY
\* key (ascending), key a function on S: every arrangement of S with
\* nondecreasing keys.
OrderBy(S, key) ==
    {l \in [1..Cardinality(S) -> S] :
        /\ \A i, j \in 1..Cardinality(S) : i # j => l[i] # l[j]
        /\ \A i, j \in 1..Cardinality(S) : i < j => key[l[i]] <= key[l[j]]}

\* AgentMemory.task_stack_get_all: WHERE paused=0 AND finished_at<0 ORDER BY
\* created_at; the lists it may return.
task_stack_get_all(d) ==
    LET rows == {m \in DOMAIN d.Tasks :
                    d.Tasks[m].paused = FALSE /\ d.Tasks[m].finished_at < 0}
    IN  OrderBy(rows, [m \in rows |-> d.Tasks[m].created_at])

\* AgentMemory.get_triples (return_obj_text left at its default): the rows of
\* Triples whose subject is no snapshot and whose columns equal the filters
\* given (NoMemid and NoText stand for None), in the order of the table.
get_triples(d, subj, obj, subj_text, pred_text, obj_text) ==
    SelectSeq(d.Triples, LAMBDA r :
        /\ r.subj \in DOMAIN d.Memories
        /\ ~d.Memories[r.subj].is_snapshot
        /\ (subj # NoMemid => r.subj = subj)
        /\ (subj_text # NoText => r.subj_text = subj_text)
        /\ (pred_text # NoText => r.pred_text = pred_text)
        /\ (obj # NoMemid => r.obj = obj)
        /\ (obj_text # NoText => r.obj_text = obj_text))

\* The three assertions of get_triples.
get_triples_ok(subj, obj, subj_text, pred_text, obj_text) ==
    /\ ((subj # NoMemid \/ subj_text # NoText) \/ pred_text # NoText
            \/ (obj # NoMemid \/ obj_text # NoText))
    /\ ~(subj # NoMemid /\ subj_text # NoText)
    /\ ~(obj # NoMemid /\ obj_text # NoText)

\* get_triples returning the object's memid also where the row has a text.
get_triples_tuples_memid(rows) ==
    [i \in 1..Len(rows) |->
        [subj |-> rows[i].subj, pred_text |-> rows[i].pred_text,
         obj |-> rows[i].obj, obj_text |-> NoText]]

\* The list get_triples makes of the rows under return_obj_text="if_exists":
\* (subj, pred_text, obj_text) where the row has an obj_text, else (subj,
\* pred_text, obj); the side not returned is NoText or NoMemid.
get_triples_tuples(rows) ==
    [i \in 1..Len(rows) |->
        IF rows[i].obj_text # NoText
        THEN [subj |-> rows[i].subj, pred_text |-> rows[i].pred_text,
              obj |-> NoMemid, obj_text |-> rows[i].obj_text]
        ELSE [subj |-> rows[i].subj, pred_text |-> rows[i].pred_text,
              obj |-> rows[i].obj, obj_text |-> NoText]]

\* TaskNode.__init__: reading the row of a memid that has none fails.
TaskNode_init(d, memid) ==
    IF memid \in DOMAIN d.Tasks THEN RetTaskNode(memid) ELSE RetRaise("TypeError")

\* TaskNode.get_chat: the memid of the chat, NoMemid for None.
TaskNode_get_chat(d, memid) ==
    LET triples == get_triples(d, NoMemid, memid, NoText, "chat_effect_", NoText)
    IN  IF triples # <<>> THEN triples[1].subj ELSE NoMemid

\* get_parent_task returning the first parent it finds.
TaskNode_get_parent_task_first(d, memid) ==
    LET triples == get_triples(d, memid, NoMemid, NoText, "_has_parent_task", NoText)
    IN  IF Len(triples) = 0 THEN RetNone
        ELSE TaskNode_init(d, triples[1].obj)

\* TaskNode.get_parent_task
TaskNode_get_parent_task(d, memid) ==
    LET triples == get_triples(d, memid, NoMemid, NoText, "_has_parent_task", NoText)
    IN  IF Len(triples) = 0 THEN RetNone
        ELSE IF Len(triples) = 1 THEN TaskNode_init(d, triples[1].obj)
        ELSE RetRaise("AssertionError")

\* TaskNode.get_root_task: the while loop, from node mem.  A walk that has
\* taken as many steps as the store has memories is on a cycle and never
\* ends: fuel counts the steps left, and "unbounded" stands for that outcome.
RECURSIVE RootWalk(_, _, _)
RootWalk(d, mem, fuel) ==
    LET parent == TaskNode_get_parent_task(d, mem)
    IN  IF parent.kind = "None" THEN RetTaskNode(mem)
        ELSE IF parent.kind # "TaskNode" THEN parent
        ELSE IF fuel = 0 THEN Ret("unbounded", NoMemid, FALSE)
        ELSE RootWalk(d, parent.memid, fuel - 1)

TaskNode_get_root_task(d, memid) == RootWalk(d, memid, Cardinality(DOMAIN d.Memories))

\* TaskNode.get_child_tasks: the memids of the child nodes it constructs, in
\* the order of the rows.
TaskNode_get_child_tasks(d, memid) ==
    LET r == get_triples(d, NoMemid, memid, NoText, "_has_parent_task", NoText)
    IN  [i \in 1..Len(r) |-> r[i].subj]

\* The loop of all_descendent_tasks: q is its stack, descendents its list.
RECURSIVE Descend(_, _, _)
Descend(d, q, descendents) ==
    IF q = <<>> THEN descendents
    ELSE LET task == q[Len(q)]
             children == TaskNode_get_child_tasks(d, task)
         IN  Descend(d, SubSeq(q, 1, Len(q) - 1) \o children, descendents \o children)

\* sorted(l, key=...): a stable sort, key a function on the elements of l.
RECURSIVE Sorted(_, _)
Sorted(l, key) ==
    IF l = <<>> THEN <<>>
    ELSE LET front == Sorted(SubSeq(l, 1, Len(l) - 1), key)
             x == l[Len(l)]
             n == Cardinality({i \in 1..Len(front) : key[front[i]] <= key[x]})
         IN  SubSeq(front, 1, n) \o <<x>> \o SubSeq(front, n + 1, Len(front))

\* all_descendent_tasks without the loop: only the children.
TaskNode_all_descendent_tasks_children(d, memid, include_root) ==
    LET children == TaskNode_get_child_tasks(d, memid)
        descendents == IF include_root THEN Append(children, memid) ELSE children
    IN  IF \E i \in 1..Len(descendents) : descendents[i] \notin DOMAIN d.Tasks
        THEN RetRaise("TypeError")
        ELSE RetList(Sorted(descendents,
                            [m \in DOMAIN d.Tasks |-> d.Tasks[m].finished_at]))

\* TaskNode.all_descendent_tasks on the node of memid.  Making the node of a
\* child whose Tasks row is gone raises.
TaskNode_all_descendent_tasks(d, memid, include_root) ==
    LET found == Descend(d, <<memid>>, <<>>)
        descendents == IF include_root THEN Append(found, memid) ELSE found
    IN  IF \E i \in 1..Len(descendents) : descendents[i] \notin DOMAIN d.Tasks
        THEN RetRaise("TypeError")
        ELSE RetList(Sorted(descendents,
                            [m \in DOMAIN d.Tasks |-> d.Tasks[m].finished_at]))

\* AgentMemory.task_stack_find_lowest_instance: what it may return or raise.
\* The query has no row when no task has one of the names, and unpacking
\* the None that _db_read_one then returns raises TypeError.
task_stack_find_lowest_instance(d, names) ==
    LET rows == {m \in DOMAIN d.Tasks : d.Tasks[m].action_name \in names}
        lowest == {m \in rows : \A n \in rows :
                        d.Tasks[m].created_at <= d.Tasks[n].created_at}
    IN  IF rows = {} THEN {RetRaise("TypeError")}
        ELSE {RetTaskNode(m) : m \in lowest}

\* The recency get_last_finished_root_task takes when it is given None:
\* round_time(300), here in ticks of the model's clock.
DefaultRecency == 2

\* get_last_finished_root_task without the action name in its query.
get_last_finished_root_task_any_name(d, t, action_name, recency) ==
    LET r == IF recency = NoRecency THEN DefaultRecency ELSE recency
        rows == {m \in DOMAIN d.Tasks : d.Tasks[m].finished_at >= get_time(t) - r}
        roots == {m \in rows : ~\E i \in 1..Len(d.Triples) :
                    d.Triples[i].pred_text = "_has_parent_task" /\ d.Triples[i].subj = m}
    IN  {m \in roots : \A n \in roots : d.Tasks[n].created_at <= d.Tasks[m].created_at}

\* AgentMemory.get_last_finished_root_task at time t: the rows it may return,
\* none for None.  The query keeps the rows with finished_at >= t - recency
\* (and the action name, when one is given), newest created first; the loop
\* returns the first of them that is no subject of _has_parent_task.
get_last_finished_root_task(d, t, action_name, recency) ==
    LET r == IF recency = NoRecency THEN DefaultRecency ELSE recency
        rows == {m \in DOMAIN d.Tasks :
                    /\ d.Tasks[m].finished_at >= get_time(t) - r
                    /\ (action_name # NoText => d.Tasks[m].action_name = action_name)}
        roots == {m \in rows : ~\E i \in 1..Len(d.Triples) :
                    d.Triples[i].pred_text = "_has_parent_task" /\ d.Triples[i].subj = m}
    IN  {m \in roots : \A n \in roots : d.Tasks[n].created_at <= d.Tasks[m].created_at}

\* ------------------------------------------------- snapshots and forgetting
\* The node classes of the model, with their TABLE and NODE_TYPE attributes.
NodeClasses == {"TaskNode", "ChatNode", "NamedAbstractionNode"}
Node_TABLE ==
    [TaskNode |-> "Tasks", ChatNode |-> "Chats", NamedAbstractionNode |-> "NamedAbstractions"]
Node_NODE_TYPE ==
    [TaskNode |-> "Task", ChatNode |-> "Time", NamedAbstractionNode |-> "NamedAbstraction"]

\* link_archive_to_mem
link_archive_to_mem(d, t, memid, archive_memid) ==
    add_triple(add_triple(d, t, archive_memid, memid, NoText, "_archive_of", NoText),
               t, memid, archive_memid, NoText, "_has_archive", NoText)

\* snapshot writing the copy's Memories row with is_snapshot false.
MemoryNode_snapshot_unmarked(d, t, cls, memid) ==
    LET table == Node_TABLE[cls]
        archive_memid == d.uuid
        d1 == MemoryNode_new(d, Node_NODE_TYPE[cls], t, FALSE)
        d2 == [d1 EXCEPT ![table] = @ @@ (archive_memid :> d[table][memid])]
    IN  IF memid \notin DOMAIN d[table]
        THEN [db |-> d, ret |-> RetRaise("TypeError")]
        ELSE [db |-> link_archive_to_mem(d2, t, memid, archive_memid), ret |-> RetNone]

\* MemoryNode.snapshot, on a node of class cls: reads the node's row of the
\* class's TABLE, and fails when there is none (raising a str is a TypeError);
\* else a Memories row with is_snapshot set, the copy of the row under the
\* new memid in the same table (no class of the model has an ARCHIVE_TABLE),
\* and the two relations.
MemoryNode_snapshot(d, t, cls, memid) ==
    LET table == Node_TABLE[cls]
        archive_memid == d.uuid
        d1 == MemoryNode_new(d, Node_NODE_TYPE[cls], t, TRUE)
        d2 == [d1 EXCEPT ![table] = @ @@ (archive_memid :> d[table][memid])]
    IN  IF memid \notin DOMAIN d[table]
        THEN [db |-> d, ret |-> RetRaise("TypeError")]
        ELSE [db |-> link_archive_to_mem(d2, t, memid, archive_memid), ret |-> RetNone]

\* AgentMemory.set_memory_attended_time: an UPDATE, which changes nothing
\* when no row has the memid.
set_memory_attended_time(d, t, memid) ==
    IF memid \in DOMAIN d.Memories
    THEN [d EXCEPT !.Memories[memid].attended_time = get_time(t)]
    ELSE d

\* MemoryNode.update_recently_attended
MemoryNode_update_recently_attended(d, t, cls, memid) ==
    MemoryNode_snapshot(set_memory_attended_time(d, t, memid), t, cls, memid)

\* The constructor get_mem_by_id calls for a node type, self.nodes.get(
\* node_type, MemoryNode): TaskNode unpacks its row, TimeNode (the last
\* class of NODELIST with NODE_TYPE "Time") and NamedAbstractionNode keep what
\* the read returned, PlayerNode and SelfNode unpack a ReferenceObjects row,
\* which no memory of the model has.
Node_init(d, node_type, memid) ==
    IF node_type = "Task" THEN TaskNode_init(d, memid)
    ELSE IF node_type = "Time" THEN Ret("TimeNode", memid, FALSE)
    ELSE IF node_type = "NamedAbstraction" THEN Ret("NamedAbstractionNode", memid, FALSE)
    ELSE IF node_type \in {"Self", "Player"} THEN RetRaise("TypeError")
    ELSE Ret("MemoryNode", memid, FALSE)

\* AgentMemory.get_node_from_memid: unpacks the row it read; the node type,
\* or the TypeError of unpacking None.
get_node_from_memid(d, memid) ==
    IF memid \in DOMAIN d.Memories
    THEN Ret("str", memid, FALSE)
    ELSE RetRaise("TypeError")

\* AgentMemory.get_mem_by_id (node_type NoText for None)
get_mem_by_id(d, memid, node_type) ==
    IF node_type = NoText
    THEN IF get_node_from_memid(d, memid).kind = "str"
         THEN Node_init(d, d.Memories[memid].node_type, memid)
         ELSE get_node_from_memid(d, memid)
    ELSE Node_init(d, node_type, memid)

\* AgentMemory.get_recent_entities: the lists it may return (ORDER BY
\* attended_time DESC), or the failure of a node's constructor.
get_recent_entities(d, t, memtype, time_window) ==
    LET rows == {m \in DOMAIN d.Memories :
                    /\ d.Memories[m].node_type = memtype
                    /\ d.Memories[m].attended_time >= get_time(t) - time_window
                    /\ ~d.Memories[m].is_snapshot}
    IN  IF \E m \in rows : Node_init(d, memtype, m).kind = "TypeError"
        THEN {RetRaise("TypeError")}
        ELSE {RetList(l) : l \in OrderBy(rows, [m \in rows |-> 0 - d.Memories[m].attended_time])}

\* A table without the row of memid.
Without(table, memid) == [m \in DOMAIN table \ {memid} |-> table[m]]

\* AgentMemory.remove_memid_triple
remove_memid_triple(d, memid, role) ==
    LET d1 == IF role \in {"subj", "both"}
              THEN [d EXCEPT !.Triples = SelectSeq(@, LAMBDA r : r.subj # memid)]
              ELSE d
    IN  IF role \in {"obj", "both"}
        THEN [d1 EXCEPT !.Triples = SelectSeq(@, LAMBDA r : r.obj # memid)]
        ELSE d1

\* DELETE FROM Memories WHERE uuid=?: the row, and by the delete cascades
\* of the schema the node's row in the table of its kind.
delete_memory(d, memid) ==
    [d EXCEPT !.Memories = Without(@, memid),
              !.Tasks = Without(@, memid),
              !.Chats = Without(@, memid),
              !.NamedAbstractions = Without(@, memid),
              !.Programs = Without(@, memid)]

\* forget removing only the relations memid is the subject of.
forget_subj(d, t, memid, hard) ==
    IF ~hard
    THEN add_triple(d, t, memid, NoMemid, NoText, "has_tag", "_forgotten")
    ELSE remove_memid_triple(delete_memory(d, memid), memid, "subj")

\* forget deleting the memory also on a soft delete.
forget_always_hard(d, t, memid, hard) ==
    remove_memid_triple(delete_memory(d, memid), memid, "both")

\* AgentMemory.forget
forget(d, t, memid, hard) ==
    IF ~hard
    THEN add_triple(d, t, memid, NoMemid, NoText, "has_tag", "_forgotten")
    ELSE remove_memid_triple(delete_memory(d, memid), memid, "both")

\* The NamedAbstraction memories of a name.
Named(d, name) == {m \in DOMAIN d.NamedAbstractions : d.NamedAbstractions[m] = name}

\* ------------------------------------------------- the store's operations
TaskMemids(d) == {m \in DOMAIN d.Memories : d.Memories[m].node_type = "Task"}

\* AgentMemory.add_tick
AddTick ==
    /\ time < MaxTime
    /\ time' = add_tick(time, 1)
    /\ op' = "add_tick"
    /\ arg' = NoArg
    /\ ret' = RetNone
    /\ UNCHANGED db
    /\ UNCHANGED interpVars

\* AgentMemory.add_chat
AddChat ==
    /\ Cardinality(DOMAIN db.Chats) < MaxChats
    /\ \E speaker \in {self_memid, player_memid} :
          db' = ChatNode_create(db, time, speaker, "chat")
    /\ op' = "add_chat"
    /\ arg' = NoArg
    /\ ret' = RetNone
    /\ UNCHANGED time
    /\ UNCHANGED interpVars

\* AgentMemory.task_stack_push, called with a parent among parents (NoMemid
\* for none) and chat_effect among effects.
PushOf(names, parents, effects) ==
    /\ Cardinality(TaskMemids(db)) < MaxTasks
    /\ \E task \in names, parent_memid \in parents, chat_effect \in effects,
          chat \in PushChats(db) :
          LET r == task_stack_push(db, time, task, parent_memid, chat_effect, chat)
          IN  /\ db' = r.db
              /\ ret' = r.ret
              /\ arg' = [NoArg EXCEPT !.name = task, !.obj = parent_memid,
                                       !.flag = chat_effect]
    /\ op' = "task_stack_push"
    /\ UNCHANGED time
    /\ UNCHANGED interpVars

PushWith(parents, effects) == PushOf(TaskNames, parents, effects)

\* task_stack_push(task): a root task, no chat_effect
TaskStackPush == PushWith({NoMemid}, {FALSE})

TaskStackPeek ==
    /\ \E mem \in PeekRows(db) :
          ret' = IF mem = NoMemid THEN RetNone ELSE RetTaskNode(mem)
    /\ op' = "task_stack_peek"
    /\ arg' = NoArg
    /\ UNCHANGED <<time, db>>
    /\ UNCHANGED interpVars

TaskStackPop ==
    /\ \E mem \in PeekRows(db) :
          LET r == task_stack_pop(db, time, mem)
          IN  db' = r.db /\ ret' = r.ret
    /\ op' = "task_stack_pop"
    /\ arg' = NoArg
    /\ UNCHANGED time
    /\ UNCHANGED interpVars

TaskStackPause ==
    /\ db' = task_stack_pause(db).db
    /\ ret' = task_stack_pause(db).ret
    /\ op' = "task_stack_pause"
    /\ arg' = NoArg
    /\ UNCHANGED time
    /\ UNCHANGED interpVars

TaskStackResume ==
    /\ db' = task_stack_resume(db).db
    /\ ret' = task_stack_resume(db).ret
    /\ op' = "task_stack_resume"
    /\ arg' = NoArg
    /\ UNCHANGED time
    /\ UNCHANGED interpVars

TaskStackGetAll ==
    /\ \E l \in task_stack_get_all(db) : ret' = RetList(l)
    /\ op' = "task_stack_get_all"
    /\ arg' = NoArg
    /\ UNCHANGED <<time, db>>
    /\ UNCHANGED interpVars

TaskStackClear ==
    /\ db' = task_stack_clear(db)
    /\ ret' = RetNone
    /\ op' = "task_stack_clear"
    /\ arg' = NoArg
    /\ UNCHANGED time
    /\ UNCHANGED interpVars

\* task_stack_push(task, parent_memid): a root task or the child of a task,
\* while the ledger has fewer than MaxQueryTasks tasks
TaskStackPushChild ==
    /\ Cardinality(TaskMemids(db)) < MaxQueryTasks
    /\ PushWith(DOMAIN db.Tasks \cup {NoMemid}, {FALSE})

\* task_stack_push(Move): a root task, while the store has fewer than
\* MaxQueryTasks task memories
TaskStackPushRoot ==
    /\ Cardinality(TaskMemids(db)) < MaxQueryTasks
    /\ PushOf({"Move"}, {NoMemid}, {FALSE})

\* task_stack_push(Move, parent_memid): a root task or the child of a task
TaskStackPushMove == PushOf({"Move"}, DOMAIN db.Tasks \cup {NoMemid}, {FALSE})

\* The class names a caller may look for; no task is a Dance.
ClsNames == {{"Move"}, {"Loop"}, {"Move", "Loop"}, {"Dance"}}

TaskStackFindLowestInstance ==
    /\ \E names \in ClsNames :
          /\ arg' = [NoArg EXCEPT !.names = names]
          /\ ret' \in task_stack_find_lowest_instance(db, names)
    /\ op' = "task_stack_find_lowest_instance"
    /\ UNCHANGED <<time, db>>
    /\ UNCHANGED interpVars

GetLastFinishedRootTask ==
    /\ \E action_name \in TaskNames \cup {NoText}, recency \in {NoRecency} \cup 0..MaxTime :
          LET found == get_last_finished_root_task(db, time, action_name, recency)
          IN  /\ arg' = [NoArg EXCEPT !.name = action_name, !.recency = recency]
              /\ ret' \in IF found = {} THEN {RetNone} ELSE {RetTaskNode(m) : m \in found}
    /\ op' = "get_last_finished_root_task"
    /\ UNCHANGED <<time, db>>
    /\ UNCHANGED interpVars

\* TaskNode(memory, memid).all_descendent_tasks(include_root)
AllDescendentTasks ==
    /\ \E memid \in DOMAIN db.Tasks, include_root \in BOOLEAN :
          /\ arg' = [NoArg EXCEPT !.memid = memid, !.flag = include_root]
          /\ ret' = TaskNode_all_descendent_tasks(db, memid, include_root)
    /\ op' = "all_descendent_tasks"
    /\ UNCHANGED <<time, db>>
    /\ UNCHANGED interpVars

\* TaskNode(memory, memid).get_parent_task()
GetParentTask ==
    /\ \E memid \in DOMAIN db.Tasks :
          /\ arg' = [NoArg EXCEPT !.memid = memid]
          /\ ret' = TaskNode_get_parent_task(db, memid)
    /\ op' = "get_parent_task"
    /\ UNCHANGED <<time, db>>
    /\ UNCHANGED interpVars

\* TaskNode(memory, memid).get_root_task()
GetRootTask ==
    /\ \E memid \in DOMAIN db.Tasks :
          /\ arg' = [NoArg EXCEPT !.memid = memid]
          /\ ret' = TaskNode_get_root_task(db, memid)
    /\ op' = "get_root_task"
    /\ UNCHANGED <<time, db>>
    /\ UNCHANGED interpVars

\* AgentMemory.add_triple called with arguments from the given sets (NoMemid
\* and NoText for an argument left at its default ""): the call fails at
\* its assertions, before anything is written, or inserts the row.
AddTripleOf(subjs, objs, subj_texts, pred_texts, obj_texts) ==
    /\ \E subj \in subjs, obj \in objs, subj_text \in subj_texts,
          pred_text \in pred_texts, obj_text \in obj_texts :
          /\ arg' = [NoArg EXCEPT !.memid = subj, !.name = pred_text, !.obj = obj,
                                   !.subj_text = subj_text, !.obj_text = obj_text]
          /\ IF add_triple_ok(subj, obj, subj_text, obj_text)
             THEN /\ db' = add_triple(db, time, subj, obj, subj_text, pred_text, obj_text)
                  /\ ret' = RetNone
             ELSE /\ db' = db
                  /\ ret' = RetRaise("AssertionError")
    /\ op' = "add_triple"
    /\ UNCHANGED time
    /\ UNCHANGED interpVars

\* The texts and predicates of the calls on the triple store.
Texts == {"X"}
PredTexts == {"has_tag", "X"}

\* add_triple(subj=task, pred_text="_has_parent_task", obj=other task), while
\* the store has fewer than MaxLinks such relations
AddParentLink ==
    /\ Cardinality({i \in 1..Len(db.Triples) :
            db.Triples[i].pred_text = "_has_parent_task"}) < MaxLinks
    /\ AddTripleOf(DOMAIN db.Tasks, DOMAIN db.Tasks, {NoText}, {"_has_parent_task"}, {NoText})

\* The snapshots in the store.
Snapshots(d) == {m \in DOMAIN d.Memories : d.Memories[m].is_snapshot}

\* The nodes of class cls a caller may hold: the constructors of TaskNode
\* and ChatNode need the row, NamedAbstractionNode takes any memid.
NodesOf(d, cls) ==
    IF cls = "NamedAbstractionNode" THEN DOMAIN d.Memories ELSE DOMAIN d[Node_TABLE[cls]]

\* node.snapshot(memory), for a node of one of the classes, while the store
\* has fewer than MaxSnapshots snapshots
SnapshotOf(classes) ==
    /\ Cardinality(Snapshots(db)) < MaxSnapshots
    /\ \E cls \in classes :
          \E memid \in NodesOf(db, cls) :
             LET r == MemoryNode_snapshot(db, time, cls, memid)
             IN  /\ arg' = [NoArg EXCEPT !.memid = memid, !.name = cls]
                 /\ db' = r.db
                 /\ ret' = r.ret
    /\ op' = "snapshot"
    /\ UNCHANGED time
    /\ UNCHANGED interpVars

Snapshot == SnapshotOf({"TaskNode", "NamedAbstractionNode"})
SnapshotTask == SnapshotOf({"TaskNode"})

\* node.update_recently_attended(), for a task node
UpdateRecentlyAttended ==
    /\ Cardinality(Snapshots(db)) < MaxSnapshots
    /\ \E memid \in NodesOf(db, "TaskNode") :
          LET r == MemoryNode_update_recently_attended(db, time, "TaskNode", memid)
          IN  /\ arg' = [NoArg EXCEPT !.memid = memid, !.name = "TaskNode"]
              /\ db' = r.db
              /\ ret' = r.ret
    /\ op' = "update_recently_attended"
    /\ UNCHANGED time
    /\ UNCHANGED interpVars

\* AgentMemory.get_recent_entities("Task", time_window)
GetRecentEntities ==
    /\ \E memtype \in {"Task"}, time_window \in 0..MaxTime :
          /\ arg' = [NoArg EXCEPT !.name = memtype, !.recency = time_window]
          /\ ret' \in get_recent_entities(db, time, memtype, time_window)
    /\ op' = "get_recent_entities"
    /\ UNCHANGED <<time, db>>
    /\ UNCHANGED interpVars

\* task_stack_push(Move) and snapshot of a task, while the store has fewer
\* than MaxTripleNodes tasks that are not snapshots, or snapshots
TaskStackPushFew ==
    /\ Cardinality(TaskMemids(db) \ Snapshots(db)) < MaxTripleNodes
    /\ PushOf({"Move"}, {NoMemid}, {FALSE})
SnapshotFew ==
    /\ Cardinality(Snapshots(db)) < MaxTripleNodes
    /\ SnapshotOf({"TaskNode"})

\* The rows of Triples that are no links between a memory and its archive.
Relations(d) ==
    {i \in 1..Len(d.Triples) : d.Triples[i].pred_text \notin {"_archive_of", "_has_archive"}}

\* add_triple with any combination of a memid or none and a text or none on
\* either side (the subject a task, the object the agent's own memory), while
\* the table has fewer than MaxTriples relations
AddTriple ==
    /\ Cardinality(Relations(db)) < MaxTriples
    /\ AddTripleOf(TaskMemids(db) \cup {NoMemid}, {self_memid, NoMemid},
                   Texts \cup {NoText}, PredTexts, Texts \cup {NoText})

\* AgentMemory.get_triples with any combination of filters
GetTriples ==
    /\ \E subj \in TaskMemids(db) \cup {NoMemid}, obj \in {self_memid, NoMemid},
          subj_text \in Texts \cup {NoText}, pred_text \in {"has_tag", NoText},
          obj_text \in Texts \cup {NoText} :
          /\ arg' = [NoArg EXCEPT !.memid = subj, !.name = pred_text, !.obj = obj,
                                   !.subj_text = subj_text, !.obj_text = obj_text]
          /\ ret' = IF get_triples_ok(subj, obj, subj_text, pred_text, obj_text)
                    THEN RetList(get_triples_tuples(
                            get_triples(db, subj, obj, subj_text, pred_text, obj_text)))
                    ELSE RetRaise("AssertionError")
    /\ op' = "get_triples"
    /\ UNCHANGED <<time, db>>
    /\ UNCHANGED interpVars

\* task_stack_push(Move, parent_memid): a root task or the child of a task,
\* while the store has fewer than MaxQueryTasks tasks
TaskStackPushPair ==
    /\ Cardinality(TaskMemids(db)) < MaxQueryTasks
    /\ PushOf({"Move"}, DOMAIN db.Tasks \cup {NoMemid}, {FALSE})

\* The memids the store has given out, and the one it gives next.
Memids(d) == 0..d.uuid

\* The memories forgotten: the memids without a row, and the relations
\* that tag a memory as forgotten.
Forgotten(d) ==
    Cardinality((0..(d.uuid - 1)) \ DOMAIN d.Memories)
        + Cardinality({i \in 1..Len(d.Triples) : d.Triples[i].obj_text = "_forgotten"})

\* AgentMemory.forget(memid, hard) on a memory of the store, while fewer than
\* MaxForgets memories are forgotten
Forget ==
    /\ Forgotten(db) < MaxForgets
    /\ \E memid \in DOMAIN db.Memories, hard \in BOOLEAN :
          /\ arg' = [NoArg EXCEPT !.memid = memid, !.flag = hard]
          /\ db' = forget(db, time, memid, hard)
    /\ ret' = RetNone
    /\ op' = "forget"
    /\ UNCHANGED time
    /\ UNCHANGED interpVars

\* AgentMemory.get_mem_by_id(memid, node_type), for a memid of the store, one
\* that was forgotten or one never given out, node_type None or "Task"
GetMemById ==
    /\ \E memid \in Memids(db), node_type \in {NoText, "Task"} :
          /\ arg' = [NoArg EXCEPT !.memid = memid, !.name = node_type]
          /\ ret' = get_mem_by_id(db, memid, node_type)
    /\ op' = "get_mem_by_id"
    /\ UNCHANGED <<time, db>>
    /\ UNCHANGED interpVars

\* AgentMemory.get_node_from_memid(memid)
GetNodeFromMemid ==
    /\ \E memid \in Memids(db) :
          /\ arg' = [NoArg EXCEPT !.memid = memid]
          /\ ret' = get_node_from_memid(db, memid)
    /\ op' = "get_node_from_memid"
    /\ UNCHANGED <<time, db>>
    /\ UNCHANGED interpVars

\* task_stack_push(task, parent_memid, chat_effect) with any arguments, while
\* the store has fewer than MaxQueryTasks tasks
TaskStackPushAny ==
    /\ Cardinality(TaskMemids(db)) < MaxQueryTasks
    /\ PushWith(DOMAIN db.Tasks \cup {NoMemid}, BOOLEAN)

StoreInit ==
    /\ time = 0
    /\ db = AgentMemory_init
    /\ op = "init"
    /\ arg = NoArg
    /\ ret = RetNone

\* The threads that call task_stack_pop on the one store handle; none has
\* called it: mem is the local variable of the call, wrote the row whose
\* finished_at the call has written.
Threads == {1, 2}
NoPop == [pc |-> "idle", mem |-> NoMemid, wrote |-> NoMemid]

\* No interpreter has been made, and no thread is in task_stack_pop.
NoInterpreter ==
    /\ action_dict = [keys |-> {}, action |-> <<>>, action_sequence |-> <<>>]
    /\ finished = FALSE
    /\ loop_data = "None"
    /\ archived_loop_data = "None"
    /\ pc = "none"
    /\ todo = <<>>
    /\ response = "None"
    /\ result = [exc |-> "", chat |-> "None"]
    /\ calls = <<>>
    /\ pushed = <<>>
    /\ nstep = 0
    /\ caught = "None"
    /\ task_objects = {}
    /\ dialogue_stack = <<>>
    /\ dobj = [exc |-> "", kind |-> "None", chat |-> "None"]
    /\ poppers = [c \in Threads |-> NoPop]

StoreNext ==
    \/ AddTick
    \/ TaskStackPush
    \/ TaskStackPeek
    \/ TaskStackPop
    \/ TaskStackPause
    \/ TaskStackResume
    \/ TaskStackGetAll
    \/ TaskStackClear

Init == StoreInit /\ NoInterpreter
Next == StoreNext
Spec == Init /\ [][Next]_vars

\* The ledger and its queries.
QueryInit == StoreInit /\ NoInterpreter
QueryNext ==
    \/ AddTick
    \/ TaskStackPushChild
    \/ TaskStackPop
    \/ TaskStackPause
    \/ TaskStackResume
    \/ TaskStackPeek
    \/ TaskStackGetAll
    \/ TaskStackFindLowestInstance
    \/ GetLastFinishedRootTask
QuerySpec == QueryInit /\ [][QueryNext]_vars

\* The ledger and the lineage of its tasks.
LineageInit == StoreInit /\ NoInterpreter
LineageNext ==
    \/ AddTick
    \/ TaskStackPushMove
    \/ TaskStackPop
    \/ TaskStackClear
    \/ AllDescendentTasks
    \/ GetParentTask
    \/ GetRootTask
LineageSpec == LineageInit /\ [][LineageNext]_vars

\* Tasks whose parents are also set by hand.
ParentInit == StoreInit /\ NoInterpreter
ParentNext ==
    \/ TaskStackPushMove
    \/ AddParentLink
    \/ GetParentTask
    \/ GetRootTask
ParentSpec == ParentInit /\ [][ParentNext]_vars

\* Memories and their snapshots.
SnapshotInit == StoreInit /\ NoInterpreter
SnapshotNext ==
    \/ AddTick
    \/ TaskStackPushRoot
    \/ Snapshot
    \/ UpdateRecentlyAttended
    \/ GetRecentEntities
SnapshotSpec == SnapshotInit /\ [][SnapshotNext]_vars

\* The ledger with snapshots of its tasks.
ArchiveInit == StoreInit /\ NoInterpreter
ArchiveNext ==
    \/ TaskStackPushRoot
    \/ TaskStackPop
    \/ SnapshotTask
    \/ UpdateRecentlyAttended
    \/ TaskStackPeek
    \/ TaskStackGetAll
    \/ TaskStackFindLowestInstance
    \/ GetLastFinishedRootTask
ArchiveSpec == ArchiveInit /\ [][ArchiveNext]_vars

\* The triple store.
TripleInit == StoreInit /\ NoInterpreter
TripleNext ==
    \/ TaskStackPushFew
    \/ SnapshotFew
    \/ AddTriple
    \/ GetTriples
TripleSpec == TripleInit /\ [][TripleNext]_vars

\* Forgetting memories and reading them.
ForgetInit == StoreInit /\ NoInterpreter
ForgetNext ==
    \/ TaskStackPushPair
    \/ Forget
    \/ GetMemById
    \/ GetNodeFromMemid
ForgetSpec == ForgetInit /\ [][ForgetNext]_vars

\* Pushing tasks with parents and chats.
PushInit == StoreInit /\ NoInterpreter
PushNext ==
    \/ AddTick
    \/ AddChat
    \/ TaskStackPushAny
    \/ TaskStackPop
    \/ TaskStackPause
PushSpec == PushInit /\ [][PushNext]_vars

\* AgentMemory.get_recent_entities(memtype, time_window) for the kinds
\* "Chat" and "Time"
GetRecentChats ==
    /\ \E memtype \in {"Chat", "Time"}, time_window \in 0..MaxTime :
          /\ arg' = [NoArg EXCEPT !.name = memtype, !.recency = time_window]
          /\ ret' \in get_recent_entities(db, time, memtype, time_window)
    /\ op' = "get_recent_entities"
    /\ UNCHANGED <<time, db>>
    /\ UNCHANGED interpVars

\* Chats among the memories, and reading them back.
KindInit == StoreInit /\ NoInterpreter
KindNext ==
    \/ AddTick
    \/ AddChat
    \/ TaskStackPushRoot
    \/ GetRecentChats
    \/ GetMemById
KindSpec == KindInit /\ [][KindNext]_vars

\* ------------------------------------------- task_stack_pop on two threads
\* The store's connection is opened with check_same_thread=False and no lock
\* is taken around a method: a thread runs one statement, and another thread
\* may run its own before the first runs its next.
\* task_stack_pop up to the return of its task_stack_peek: the SELECT.
PopPeek(c) ==
    /\ poppers[c].pc = "idle"
    /\ \E mem \in PeekRows(db) :
          /\ poppers' = [poppers EXCEPT ![c] =
                [pc |-> IF mem = NoMemid THEN "raised" ELSE "peeked",
                 mem |-> mem, wrote |-> NoMemid]]
          /\ ret' = IF mem = NoMemid THEN RetRaise("ValueError") ELSE RetTaskNode(mem)
    /\ op' = "task_stack_peek"
    /\ arg' = NoArg
    /\ UNCHANGED <<time, db>>
    /\ UNCHANGED <<action_dict, finished, loop_data, archived_loop_data, pc, todo,
                    response, result, calls, pushed, nstep, caught, task_objects,
                    dialogue_stack, dobj>>

\* The rest of task_stack_pop: the UPDATE of finished_at on the row the
\* thread peeked, and the return of that row.
PopWrite(c) ==
    /\ poppers[c].pc = "peeked"
    /\ LET r == task_stack_pop(db, time, poppers[c].mem)
       IN  /\ db' = r.db
           /\ ret' = r.ret
    /\ poppers' = [poppers EXCEPT ![c] =
            [pc |-> "returned", mem |-> poppers[c].mem, wrote |-> poppers[c].mem]]
    /\ op' = "task_stack_pop"
    /\ arg' = NoArg
    /\ UNCHANGED time
    /\ UNCHANGED <<action_dict, finished, loop_data, archived_loop_data, pc, todo,
                    response, result, calls, pushed, nstep, caught, task_objects,
                    dialogue_stack, dobj>>

ThreadPeeks == \E c \in Threads : PopPeek(c)
ThreadWrites == \E c \in Threads : PopWrite(c)

RaceInit == StoreInit /\ NoInterpreter
RaceNext ==
    \/ AddTick
    \/ TaskStackPushRoot
    \/ TaskStackPause
    \/ ThreadPeeks
    \/ ThreadWrites
RaceSpec == RaceInit /\ [][RaceNext]_vars

\* --------------------------------------------------------- the interpreter
\* Interpreter.action_handlers: the dispatch table's keys.
action_handlers == {"MOVE", "STOP", "RESUME", "UNDO", "OTHERACTION"}

\* LocoInterpreter.task_objects: the keys of the task table.
LocoInterpreter_task_objects ==
    {"move", "look", "dance", "point", "turn", "autograsp", "loop", "get", "drop"}

\* The task table of an interpreter subclass that can undo.
UndoInterpreter_task_objects == {"move", "loop", "undo"}

InterpreterClasses == {LocoInterpreter_task_objects, UndoInterpreter_task_objects}

\* The values of an UNDO action's undo_action key, as the list of its parts
\* between underscores: <<>> is the key left out.
UndoActions == {<<>>} \cup {<<n, "something">> : n \in TaskNames}

\* An action_type the dispatch table has no key for.
UnknownType == "DIG"

\* The actions of a command: idx is the action's place in the command as the
\* parser produced it; stop_condition says whether the key is present.
ActionDefs(i) ==
    {[action_type |-> a, idx |-> i, stop_condition |-> FALSE, undo_action |-> <<>>] :
        a \in action_handlers \cup {UnknownType}}
    \cup {[action_type |-> "MOVE", idx |-> i, stop_condition |-> TRUE, undo_action |-> <<>>]}
    \cup {[action_type |-> "UNDO", idx |-> i, stop_condition |-> FALSE, undo_action |-> u] :
            u \in UndoActions}

ActionSequences ==
    UNION {{l \in [1..n -> UNION {ActionDefs(i) : i \in 1..n}] :
                \A i \in 1..n : l[i].idx = i} : n \in 0..MaxActions}

\* The HUMAN_GIVE_COMMAND logical forms: with an action, with an
\* action_sequence, with neither.
ActionDicts ==
    {[keys |-> {"action"}, action |-> <<a>>, action_sequence |-> <<>>] : a \in ActionDefs(1)}
    \cup {[keys |-> {"action_sequence"}, action |-> <<>>, action_sequence |-> l] :
            l \in ActionSequences}
    \cup {[keys |-> {}, action |-> <<>>, action_sequence |-> <<>>]}

Reverse(l) == [i \in 1..Len(l) |-> l[Len(l) + 1 - i]]

NoChat == "None"
Returned(chat) == [exc |-> "", chat |-> chat]
Raised(exc) == [exc |-> exc, chat |-> NoChat]

\* step, lines 83-88: the list the for loop runs over, and the command after
\* it: actions is the command's own list, which reverse() reverses in place.
StepActions_forward(ad) ==
    IF "action" \in ad.keys THEN [actions |-> ad.action, action_dict |-> ad]
    ELSE IF "action_sequence" \in ad.keys
    THEN [actions |-> ad.action_sequence, action_dict |-> ad]
    ELSE [actions |-> <<>>, action_dict |-> ad]

StepActions(ad) ==
    IF "action" \in ad.keys THEN [actions |-> ad.action, action_dict |-> ad]
    ELSE IF "action_sequence" \in ad.keys
    THEN [actions |-> Reverse(ad.action_sequence),
          action_dict |-> [ad EXCEPT !.action_sequence = Reverse(@)]]
    ELSE [actions |-> <<>>, action_dict |-> ad]

\* step, lines 101-103: except ErrorWithResponse.  fin is self.finished.
except_ErrorWithResponse_unfinished(fin, chat) ==
    [finished |-> fin, result |-> Returned(chat)]

except_ErrorWithResponse(fin, chat) ==
    [finished |-> TRUE, result |-> Returned(chat)]

\* step, lines 99-100: except NextDialogueStep.
except_NextDialogueStep(fin) ==
    [finished |-> fin, result |-> Returned(NoChat)]

\* append_new_task without its add_tick.
append_new_task_notick(d, t, cls, chat) ==
    LET r == task_stack_push(d, get_time(t), cls, NoMemid, TRUE, chat)
    IN  [db |-> r.db, time |-> t, ret |-> r.ret, memid |-> d.uuid]

\* append_new_task pushing without chat_effect.
append_new_task_no_effect(d, t, cls, chat) ==
    LET t1 == add_tick(t, 1)
        r == task_stack_push(d, get_time(t1), cls, NoMemid, FALSE, chat)
    IN  [db |-> r.db, time |-> t1, ret |-> r.ret, memid |-> d.uuid]

\* Interpreter.append_new_task: add_tick, then task_stack_push with
\* chat_effect=True.  memid is the task row the push made.
append_new_task(d, t, cls, chat) ==
    LET t1 == add_tick(t, 1)
        r == task_stack_push(d, get_time(t1), cls, NoMemid, TRUE, chat)
    IN  [db |-> r.db, time |-> t1, ret |-> r.ret, memid |-> d.uuid]

\* A turn of the interpreter runs to completion: nothing else uses the store
\* while step is in its loop.
Idle == pc # "loop"

\* Interpreter.__init__ for the command ad, in a subclass whose task table
\* has the keys cls.
NewInterpreter(ad, cls) ==
    /\ action_dict' = ad
    /\ task_objects' = cls
    /\ finished' = FALSE
    /\ loop_data' = "None"
    /\ archived_loop_data' = "None"
    /\ pc' = "ready"
    /\ todo' = <<>>
    /\ response' = "None"
    /\ result' = Returned(NoChat)
    /\ calls' = <<>>
    /\ pushed' = <<>>
    /\ nstep' = 0
    /\ caught' = "None"
    /\ dialogue_stack' = <<>>

\* ------------------------------------------------------ the dialogue manager
\* A dialogue_type handle_logical_form has no branch for.
UnknownDialogueType == "GET_CAPABILITIES"

NoCommand == [keys |-> {}, action |-> <<>>, action_sequence |-> <<>>]

\* The logical forms the parser hands over.
LogicalForms ==
    {[dialogue_type |-> "HUMAN_GIVE_COMMAND", command |-> ad] : ad \in ActionDicts}
    \cup {[dialogue_type |-> t, command |-> NoCommand] :
            t \in {"NOOP", "PUT_MEMORY", "GET_MEMORY", UnknownDialogueType}}

\* coref_resolve, which handle_logical_form calls on the command before it
\* stores it: the command is stored as the parser produced it.
coref_resolve(d) == d

\* handle_logical_form, lines 188-204: the dialogue object returned, or the
\* exception raised.
handle_logical_form(d) ==
    IF d.dialogue_type = "NOOP"
    THEN [exc |-> "", kind |-> "Say", chat |-> "I don't know how to answer that."]
    ELSE IF d.dialogue_type = "HUMAN_GIVE_COMMAND"
    THEN [exc |-> "", kind |-> "interpreter", chat |-> "None"]
    ELSE IF d.dialogue_type = "PUT_MEMORY"
    THEN [exc |-> "", kind |-> "put_memory", chat |-> "None"]
    ELSE IF d.dialogue_type = "GET_MEMORY"
    THEN [exc |-> "", kind |-> "get_memory", chat |-> "None"]
    ELSE [exc |-> "ValueError", kind |-> "None", chat |-> "None"]

\* NSPDialogueManager.handle_logical_form on one of forms, the agent's
\* interpreter class being one of classes: the Program row is written, then
\* the dialogue object is made.
HandleLogicalFormOf(forms, classes) ==
    /\ pc = "none"
    /\ dobj.kind = "None" /\ dobj.exc = ""
    /\ \E d \in forms, cls \in classes :
          /\ db' = ProgramNode_create(db, time, coref_resolve(d))
          /\ dobj' = handle_logical_form(d)
          /\ IF handle_logical_form(d).kind = "interpreter"
             THEN NewInterpreter(d.command, cls)
             ELSE UNCHANGED <<action_dict, finished, loop_data, archived_loop_data, pc,
                              todo, response, result, calls, pushed, nstep, caught,
                              task_objects, dialogue_stack>>
    /\ op' = "ProgramNode_create"
    /\ arg' = NoArg
    /\ ret' = Ret("str", db.uuid, FALSE)
    /\ UNCHANGED <<time, poppers>>

HandleLogicalForm == HandleLogicalFormOf(LogicalForms, InterpreterClasses)

\* Interpreter.step up to its for loop.  The dialogue stack steps an
\* interpreter until it is finished.
StepBegin ==
    /\ pc = "ready" \/ (pc = "returned" /\ ~finished)
    /\ nstep < MaxSteps
    /\ nstep' = nstep + 1
    /\ LET a == StepActions(action_dict)
           err == except_ErrorWithResponse(finished,
                    "I thought you wanted me to do something, but now I don't know what")
       IN  /\ action_dict' = a.action_dict
           /\ calls' = <<>>
           /\ pushed' = <<>>
           /\ IF Len(a.actions) = 0
              THEN /\ finished' = err.finished
                   /\ result' = err.result
                   /\ caught' = "ErrorWithResponse"
                   /\ pc' = "returned"
                   /\ todo' = <<>>
              ELSE /\ pc' = "loop"
                   /\ todo' = a.actions
                   /\ caught' = "None"
                   /\ UNCHANGED <<finished, result>>
    /\ UNCHANGED <<storeVars, loop_data, archived_loop_data, response, dialogueVars,
                    dialogue_stack>>

\* The for loop's next action is of type a.
Handling(a) ==
    /\ pc = "loop"
    /\ todo # <<>>
    /\ Head(todo).action_type = a

\* The handler returned resp: on to the next action.
HandlerReturns(resp) ==
    /\ response' = resp
    /\ todo' = Tail(todo)
    /\ calls' = Append(calls, Head(todo).idx)
    /\ UNCHANGED <<action_dict, pc, result, nstep, caught, dialogueVars>>

\* The handler raised ErrorWithResponse(chat) or NextDialogueStep: step
\* catches it and returns.
HandlerRaises(exc, chat) ==
    /\ IF exc = "ErrorWithResponse"
       THEN /\ finished' = except_ErrorWithResponse(finished, chat).finished
            /\ result' = except_ErrorWithResponse(finished, chat).result
       ELSE /\ finished' = except_NextDialogueStep(finished).finished
            /\ result' = except_NextDialogueStep(finished).result
    /\ caught' = exc
    /\ pc' = "returned"
    /\ calls' = Append(calls, Head(todo).idx)
    /\ UNCHANGED <<action_dict, todo, response, nstep, dialogueVars>>

\* Interpreter.handle_move.  The sub-resolvers are opaque: they return, raise
\* ErrorWithResponse or raise NextDialogueStep, and reference_locations
\* returns mems empty or not.  Every raise comes before append_new_task.
HandleMove ==
    /\ Handling("MOVE")
    /\ \E outcome \in {"ok", "ErrorWithResponse", "NextDialogueStep"}, mems \in BOOLEAN :
          LET d == Head(todo)
              cls == IF d.stop_condition THEN "Loop" ELSE "Move"
          IN  /\ loop_data' = IF d.stop_condition /\ mems THEN "loc" ELSE loop_data
              /\ (~d.stop_condition => ~mems)
              /\ IF outcome = "ok"
                 THEN /\ time < MaxTime
                      /\ Cardinality(TaskMemids(db)) < MaxTasks
                      /\ \E chat \in PushChats(db) :
                            LET r == append_new_task(db, time, cls, chat)
                            IN  /\ db' = r.db
                                /\ time' = r.time
                                /\ ret' = r.ret
                                /\ op' = "task_stack_push"
                                /\ arg' = NoArg
                                /\ pushed' = Append(pushed, r.memid)
                                /\ IF r.ret.kind = "TaskNode"
                                   THEN /\ finished' = TRUE
                                        /\ HandlerReturns("None")
                                   ELSE /\ pc' = "raised"
                                        /\ result' = Raised(r.ret.kind)
                                        /\ calls' = Append(calls, d.idx)
                                        /\ UNCHANGED <<action_dict, finished, todo,
                                                        response, nstep, caught,
                                                        dialogueVars>>
                 ELSE /\ HandlerRaises(outcome,
                            "I don't understand where you want me to move.")
                      /\ UNCHANGED <<storeVars, pushed>>
    /\ UNCHANGED <<archived_loop_data, dialogue_stack>>

\* handle_stop archiving loop_data whether or not it is None.
HandleStop_always_archive ==
    /\ Handling("STOP")
    /\ finished' = TRUE
    /\ archived_loop_data' = loop_data /\ loop_data' = "None"
    /\ db' = task_stack_pause(db).db
    /\ ret' = task_stack_pause(db).ret
    /\ op' = "task_stack_pause"
    /\ arg' = NoArg
    /\ HandlerReturns(IF task_stack_pause(db).ret.flag
                      THEN "Stopping.  What should I do next?"
                      ELSE "I am not doing anything")
    /\ UNCHANGED <<time, pushed, dialogue_stack>>

\* Interpreter.handle_stop
HandleStop ==
    /\ Handling("STOP")
    /\ finished' = TRUE
    /\ IF loop_data # "None"
       THEN archived_loop_data' = loop_data /\ loop_data' = "None"
       ELSE UNCHANGED <<loop_data, archived_loop_data>>
    /\ db' = task_stack_pause(db).db
    /\ ret' = task_stack_pause(db).ret
    /\ op' = "task_stack_pause"
    /\ arg' = NoArg
    /\ HandlerReturns(IF task_stack_pause(db).ret.flag
                      THEN "Stopping.  What should I do next?"
                      ELSE "I am not doing anything")
    /\ UNCHANGED <<time, pushed, dialogue_stack>>

\* Interpreter.handle_resume
HandleResume ==
    /\ Handling("RESUME")
    /\ finished' = TRUE
    /\ db' = task_stack_resume(db).db
    /\ ret' = task_stack_resume(db).ret
    /\ op' = "task_stack_resume"
    /\ arg' = NoArg
    /\ IF task_stack_resume(db).ret.flag /\ archived_loop_data # "None"
       THEN loop_data' = archived_loop_data /\ archived_loop_data' = "None"
       ELSE UNCHANGED <<loop_data, archived_loop_data>>
    /\ HandlerReturns(IF task_stack_resume(db).ret.flag
                      THEN "resuming" ELSE "nothing to resume")
    /\ UNCHANGED <<time, pushed, dialogue_stack>>

\* Interpreter.handle_undo.  undo_action.split("_")[0] is the first of the
\* parts of undo_action.
HandleUndo ==
    /\ Handling("UNDO")
    /\ LET d == Head(todo)
           task_name == IF d.undo_action # <<>> THEN Head(d.undo_action) ELSE NoText
           found == get_last_finished_root_task(db, time, task_name, NoRecency)
       IN  IF "undo" \notin task_objects
           THEN /\ pc' = "raised"
                /\ result' = Raised("KeyError")
                /\ calls' = Append(calls, d.idx)
                /\ UNCHANGED <<storeVars, action_dict, finished, todo, response, nstep,
                                caught, dialogueVars, dialogue_stack>>
           ELSE \E old_task \in (IF found = {} THEN {NoMemid} ELSE found) :
                /\ op' = "get_last_finished_root_task"
                /\ arg' = NoArg
                /\ ret' = IF old_task = NoMemid THEN RetNone ELSE RetTaskNode(old_task)
                /\ UNCHANGED <<time, db>>
                /\ IF old_task = NoMemid
                   THEN /\ HandlerRaises("ErrorWithResponse", "Nothing to be undone ...")
                        /\ UNCHANGED dialogue_stack
                   ELSE IF TaskNode_get_chat(db, old_task) = NoMemid
                   THEN /\ pc' = "raised"
                        /\ result' = Raised("AttributeError")
                        /\ calls' = Append(calls, d.idx)
                        /\ UNCHANGED <<action_dict, finished, todo, response, nstep,
                                        caught, dialogueVars, dialogue_stack>>
                   ELSE /\ dialogue_stack' = Append(dialogue_stack,
                                [kind |-> "ConfirmTask",
                                 undo_command |-> db.Chats[TaskNode_get_chat(db, old_task)].chat,
                                 undo_tasks |-> <<[cls |-> "Undo", memid |-> old_task]>>])
                        /\ finished' = TRUE
                        /\ HandlerReturns("None")
    /\ UNCHANGED <<loop_data, archived_loop_data, pushed>>

\* Interpreter.handle_otheraction
HandleOtheraction ==
    /\ Handling("OTHERACTION")
    /\ finished' = TRUE
    /\ HandlerReturns("I don't know how to do that yet")
    /\ UNCHANGED <<storeVars, loop_data, archived_loop_data, pushed, dialogue_stack>>

\* step, line 97, for an action_type that is no key of action_handlers: the
\* lookup raises KeyError, which step does not catch.
HandleUnknown ==
    /\ pc = "loop"
    /\ todo # <<>>
    /\ Head(todo).action_type \notin action_handlers
    /\ pc' = "raised"
    /\ result' = Raised("KeyError")
    /\ UNCHANGED <<storeVars, action_dict, finished, loop_data, archived_loop_data,
                    todo, response, calls, pushed, nstep, caught, dialogueVars,
                    dialogue_stack>>

\* step, line 98: return response.
StepReturn ==
    /\ pc = "loop"
    /\ todo = <<>>
    /\ pc' = "returned"
    /\ result' = Returned(response)
    /\ UNCHANGED <<storeVars, action_dict, finished, loop_data, archived_loop_data,
                    todo, response, calls, pushed, nstep, caught, dialogueVars,
                    dialogue_stack>>

\* ------------------------------------------------------- the task executor
\* Loop.step on the task the executor steps, the top of the stack: when the
\* stop condition does not hold, every task of new_tasks_fn() is pushed with
\* the Loop as its parent, at the time the clock shows.
RECURSIVE Loop_step(_, _, _, _)
Loop_step(d, t, memid, n) ==
    IF n = 0 THEN d
    ELSE Loop_step(task_stack_push(d, t, "Move", memid, FALSE, NoMemid).db, t, memid, n - 1)

LoopStep ==
    /\ Idle
    /\ \E mem \in task_stack_peek(db), n \in 1..MaxNewTasks :
          /\ db.Tasks[mem].action_name = "Loop"
          /\ Cardinality(TaskMemids(db)) + n <= MaxTasks
          /\ db' = Loop_step(db, time, mem, n)
          /\ ret' = RetTaskNode(db'.uuid - 1)
    /\ op' = "task_stack_push"
    /\ arg' = NoArg
    /\ UNCHANGED <<time, interpVars>>

\* The executor pops the top of the stack once its task is finished.
ExecutorPop == Idle /\ task_stack_peek(db) # {} /\ TaskStackPop

\* The clock advances between turns.
ClockTick == Idle /\ AddTick

\* The agent has stored the speaker's chat; the command parsed from it is
\* about to reach handle_logical_form.
AgentInit ==
    /\ time = 0
    /\ db = ChatNode_create(AgentMemory_init, 0, player_memid, "chat")
    /\ op = "add_chat"
    /\ arg = NoArg
    /\ ret = RetNone
    /\ NoInterpreter

AgentNext ==
    \/ ClockTick
    \/ HandleLogicalForm
    \/ StepBegin
    \/ HandleMove
    \/ HandleStop
    \/ HandleResume
    \/ HandleUndo
    \/ HandleOtheraction
    \/ HandleUnknown
    \/ StepReturn
    \/ LoopStep
    \/ ExecutorPop
AgentSpec == AgentInit /\ [][AgentNext]_vars

\* ------------------------------------------------------- an UNDO command
\* The tasks without a parent: no _has_parent_task relation starts at them.
IsRoot(d, m) ==
    ~\E i \in 1..Len(d.Triples) :
        d.Triples[i].pred_text = "_has_parent_task" /\ d.Triples[i].subj = m
RootTasks(d) == {m \in DOMAIN d.Tasks : IsRoot(d, m)}

\* The commands with the one action UNDO.
UndoForms ==
    {[dialogue_type |-> "HUMAN_GIVE_COMMAND",
      command |-> [keys |-> {"action"}, action |-> <<a>>, action_sequence |-> <<>>]] :
        a \in {b \in ActionDefs(1) : b.action_type = "UNDO"}}

UndoCommand == HandleLogicalFormOf(UndoForms, InterpreterClasses)

\* Before the command arrives the ledger is used through the store's
\* interface: root tasks are pushed, with chat_effect or without.
EarlierPush ==
    /\ pc = "none"
    /\ Cardinality(RootTasks(db)) < MaxEarlierTasks
    /\ PushWith({NoMemid}, BOOLEAN)

\* What the executor and the clock do before the command arrives.
EarlierLoopStep == pc = "none" /\ LoopStep
EarlierPop == pc = "none" /\ ExecutorPop
EarlierTick == pc = "none" /\ ClockTick

UndoInit == AgentInit
UndoNext ==
    \/ EarlierTick
    \/ EarlierPush
    \/ EarlierLoopStep
    \/ EarlierPop
    \/ UndoCommand
    \/ StepBegin
    \/ HandleUndo
    \/ StepReturn
UndoSpec == UndoInit /\ [][UndoNext]_vars

\* ------------------------------------------------- STOP and RESUME commands
\* The commands made of MOVE, STOP and RESUME actions.
StopActionDefs(i) ==
    {a \in ActionDefs(i) : a.action_type \in {"MOVE", "STOP", "RESUME"}}

StopSequences ==
    UNION {{l \in [1..n -> UNION {StopActionDefs(i) : i \in 1..n}] :
                \A i \in 1..n : l[i].idx = i} : n \in 1..MaxStopActions}

StopForms ==
    {[dialogue_type |-> "HUMAN_GIVE_COMMAND",
      command |-> [keys |-> {"action_sequence"}, action |-> <<>>, action_sequence |-> l]] :
        l \in StopSequences}

StopCommand == HandleLogicalFormOf(StopForms, {LocoInterpreter_task_objects})

\* Before the command arrives the ledger is paused through the store.
EarlierPause == pc = "none" /\ TaskStackPause

StopInit == AgentInit
StopNext ==
    \/ EarlierPush
    \/ EarlierPop
    \/ EarlierPause
    \/ StopCommand
    \/ StepBegin
    \/ HandleMove
    \/ HandleStop
    \/ HandleResume
    \/ StepReturn
StopSpec == StopInit /\ [][StopNext]_vars

\* ------------------------------------------------------------- the ledger
\* "Active" as the ledger defines it: finished_at unset and not paused.
IsFinished(d, m) == d.Tasks[m].finished_at >= 0
IsActive(d, m) == d.Tasks[m].finished_at < 0 /\ ~d.Tasks[m].paused
ActiveTasks(d) == {m \in DOMAIN d.Tasks : IsActive(d, m)}
UnfinishedTasks(d) == {m \in DOMAIN d.Tasks : ~IsFinished(d, m)}
IsNewest(d, m) ==
    /\ m \in ActiveTasks(d)
    /\ \A n \in ActiveTasks(d) : d.Tasks[n].created_at <= d.Tasks[m].created_at

\* C1: task_stack_peek returns an active task with the greatest created_at
\* (None when there is none); task_stack_pop returns such a task and marks it
\* finished at the current time; two pops in a row return tasks in reverse
\* creation order.
C1_PeekPopNewestFirst ==
    [][/\ (op' = "task_stack_peek" /\ ActiveTasks(db) # {}
             => ret'.kind = "TaskNode" /\ IsNewest(db, ret'.memid))
       /\ (op' = "task_stack_pop" /\ ActiveTasks(db) # {}
             => /\ ret'.kind = "TaskNode" /\ IsNewest(db, ret'.memid)
                /\ db'.Tasks[ret'.memid].finished_at = time
                /\ IsFinished(db', ret'.memid)
                /\ ActiveTasks(db') = ActiveTasks(db) \ {ret'.memid})
       /\ (op = "task_stack_pop" /\ ret.kind = "TaskNode"
           /\ op' = "task_stack_pop" /\ ret'.kind = "TaskNode"
             => /\ ret'.memid # ret.memid
                /\ db.Tasks[ret'.memid].created_at <= db.Tasks[ret.memid].created_at)
      ]_vars

\* C1 witness: A, B, C were pushed at increasing times, C was popped and the
\* peek that followed returned B.
C1_Witness ==
    \E a, b, c \in DOMAIN db.Tasks :
        /\ db.Tasks[a].created_at < db.Tasks[b].created_at
        /\ db.Tasks[b].created_at < db.Tasks[c].created_at
        /\ IsFinished(db, c) /\ IsActive(db, a) /\ IsActive(db, b)
        /\ op = "task_stack_peek" /\ ret = RetTaskNode(b)

\* C2: with no active task, task_stack_pop raises ValueError and changes no
\* row of Tasks, and task_stack_peek returns None.
C2_PopOfEmptyStackFails ==
    [][/\ (op' = "task_stack_pop" /\ ActiveTasks(db) = {}
             => ret' = RetRaise("ValueError") /\ db' = db)
       /\ (op' = "task_stack_peek" /\ ActiveTasks(db) = {}
             => ret' = RetNone /\ db' = db)
      ]_vars

\* C2 witness: a pop failed while the ledger held a paused task and a
\* finished one.
C2_Witness ==
    /\ op = "task_stack_pop" /\ ret = RetRaise("ValueError")
    /\ \E m, n \in DOMAIN db.Tasks :
          IsFinished(db, m) /\ ~IsFinished(db, n) /\ db.Tasks[n].paused

\* C3: a finished task stays in the ledger with its finished_at, paused flag
\* and action name unchanged.
C3_FinishedIsImmutable ==
    [][\A m \in DOMAIN db.Tasks : IsFinished(db, m) =>
          /\ m \in DOMAIN db'.Tasks
          /\ db'.Tasks[m].finished_at = db.Tasks[m].finished_at
          /\ db'.Tasks[m].paused = db.Tasks[m].paused
          /\ db'.Tasks[m].action_name = db.Tasks[m].action_name
      ]_vars

\* C3 witness: the ledger was paused while it held a finished task and an
\* unfinished one.
C3_Witness ==
    /\ op = "task_stack_pause" /\ ret = RetBool(TRUE)
    /\ \E m \in DOMAIN db.Tasks : IsFinished(db, m) /\ db.Tasks[m].finished_at < time

\* C4: task_stack_pause returns True when a task was active and False when it
\* directly follows a pause; task_stack_resume after a pause that stopped
\* something returns True, and returns False when no task is paused.
C4_PauseResumeReportChange ==
    [][/\ (op' = "task_stack_pause" /\ ActiveTasks(db) # {} => ret' = RetBool(TRUE))
       /\ (op = "task_stack_pause" /\ op' = "task_stack_pause" => ret' = RetBool(FALSE))
       /\ (op = "task_stack_pause" /\ ret = RetBool(TRUE) /\ op' = "task_stack_resume"
             => ret' = RetBool(TRUE))
       /\ (op' = "task_stack_resume" /\ (\A m \in DOMAIN db.Tasks : ~db.Tasks[m].paused)
             => ret' = RetBool(FALSE))
      ]_vars

\* C5: task_stack_pause leaves no task active, and peek and get_all then find
\* nothing; only a push (its new task) or a resume makes a task active;
\* task_stack_resume makes exactly the unfinished tasks active.
C5_PauseStopsResumeRestarts ==
    [][/\ (op' = "task_stack_pause" => ActiveTasks(db') = {})
       /\ (op = "task_stack_pause" /\ op' = "task_stack_peek" => ret' = RetNone)
       /\ (op = "task_stack_pause" /\ op' = "task_stack_get_all" => ret' = RetList(<<>>))
       /\ (op' \notin {"task_stack_push", "task_stack_resume"}
             => ActiveTasks(db') \subseteq ActiveTasks(db))
       /\ (op' = "task_stack_push"
             => ActiveTasks(db') \subseteq
                    ActiveTasks(db) \cup (DOMAIN db'.Tasks \ DOMAIN db.Tasks))
       /\ (op' = "task_stack_resume"
             => /\ ActiveTasks(db') = UnfinishedTasks(db)
                /\ \A m \in DOMAIN db.Tasks : IsFinished(db, m) => IsFinished(db', m))
      ]_vars

\* C5 witness: a resume made a task active next to a finished one.
C5_Witness ==
    /\ op = "task_stack_resume"
    /\ \E m, n \in DOMAIN db.Tasks : IsFinished(db, m) /\ IsActive(db, n)


\* ------------------------------------------------- the interpreter's turn
EmptyCommandChat == "I thought you wanted me to do something, but now I don't know what"
IsEmptyCommand(ad) ==
    /\ "action" \notin ad.keys
    /\ ("action_sequence" \notin ad.keys \/ Len(ad.action_sequence) = 0)

\* C6 as claimed: step invokes the handlers of an action_sequence in the
\* original order a1, a2, ..., an (calls holds each handled action's place in
\* the command as parsed).
C6_HandlersInOriginalOrder ==
    "action_sequence" \in action_dict.keys =>
        \A k \in 1..Len(calls) : calls[k] = k

\* C6 as amended: step invokes the handlers in the reverse of the order the
\* action_sequence has when step is entered, one after the other: an, ..., a1
\* on the first invocation and, the stored list having been reversed in
\* place, a1, ..., an on the second.
C6_HandlersInReverseOrder ==
    ("action_sequence" \in action_dict.keys /\ pc \in {"loop", "returned", "raised"}) =>
        LET n == Len(action_dict.action_sequence)
        IN  /\ Len(calls) <= n
            /\ \A k \in 1..Len(calls) :
                  /\ calls[k] = IF nstep % 2 = 1 THEN n + 1 - k ELSE k
                  /\ calls[k] = action_dict.action_sequence[k].idx

\* C6 witness: the first step of a two-action sequence has handled a2, then a1.
C6_Witness ==
    /\ "action_sequence" \in action_dict.keys
    /\ pc = "returned" /\ nstep = 1 /\ calls = <<2, 1>>

\* C7: append_new_task advances the clock by one tick and then creates the
\* task at the new time, later than every task it created before in the
\* same step.
C7_TickBeforeEachPush ==
    [][Len(pushed') > Len(pushed) =>
          LET m == pushed'[Len(pushed')]
          IN  /\ time' = time + 1
              /\ m \notin DOMAIN db.Tasks
              /\ db'.Tasks[m].created_at = time'
              /\ \A k \in 1..Len(pushed) :
                    db'.Tasks[pushed[k]].created_at < db'.Tasks[m].created_at
      ]_vars

\* C7 witness: one step has pushed two tasks.
C7_Witness == pc = "returned" /\ result.exc = "" /\ Len(pushed) = 2

\* C8: every task_stack_push happens at a time strictly greater than that of
\* every earlier push (memids are handed out in push order), so no two tasks
\* share created_at.
C8_PushTimesStrictlyIncrease ==
    \A m, n \in DOMAIN db.Tasks :
        m < n => db.Tasks[m].created_at < db.Tasks[n].created_at

\* C9: step on a command with no action and no (or an empty) action_sequence
\* returns the fixed response, marks the interpreter finished, invokes no
\* handler and leaves the store and the clock as they were.
C9_EmptyCommandFails ==
    [][(nstep' = nstep + 1 /\ IsEmptyCommand(action_dict)) =>
          /\ pc' = "returned"
          /\ result' = Returned(EmptyCommandChat)
          /\ finished'
          /\ calls' = <<>> /\ pushed' = <<>>
          /\ db' = db /\ time' = time
      ]_vars

\* C9 witness: step has returned on a command with neither key.
C9_Witness ==
    /\ action_dict.keys = {} /\ nstep = 1
    /\ pc = "returned" /\ finished /\ result = Returned(EmptyCommandChat)

\* C10: when the for loop reaches an action whose action_type is no key of
\* the dispatch table, no exception escapes step: the action is answered as
\* OTHERACTION is, the interpreter is marked finished and the store is left
\* as it was.
C10_UnknownActionTypeApologises ==
    [][(pc = "loop" /\ todo # <<>> /\ Head(todo).action_type \notin action_handlers) =>
          /\ pc' # "raised"
          /\ finished'
          /\ response' = "I don't know how to do that yet"
          /\ db' = db
      ]_vars

\* ---------------------------------------------------- the dialogue manager
DialogueTypes == {"HUMAN_GIVE_COMMAND", "PUT_MEMORY", "GET_MEMORY", "NOOP"}

\* C11: handle_logical_form on a logical form whose dialogue_type is none of
\* HUMAN_GIVE_COMMAND, PUT_MEMORY, GET_MEMORY, NOOP raises nothing and
\* answers the speaker with a fixed message (a Say dialogue object).
C11_UnknownDialogueTypeApologises ==
    [][(db.uuid \in DOMAIN db'.Programs
        /\ db'.Programs[db.uuid].dialogue_type \notin DialogueTypes) =>
          /\ dobj'.exc = ""
          /\ dobj'.kind = "Say"
      ]_vars

\* C12: when step has caught ErrorWithResponse and marked the interpreter
\* finished, no task was pushed during that invocation of step.
C12_ErrorResponseMeansNothingPushed ==
    (pc = "returned" /\ caught = "ErrorWithResponse" /\ finished) => pushed = <<>>

\* ------------------------------------------------------------------ undo
PushedByChat(d, m) ==
    \E i \in 1..Len(d.Triples) :
        /\ d.Triples[i].pred_text = "chat_effect_" /\ d.Triples[i].obj = m
        /\ d.Triples[i].subj \in DOMAIN d.Chats
UndoHandled == pc = "loop" /\ todo # <<>> /\ Head(todo).action_type = "UNDO"

\* C13: handle_undo, on an interpreter that has an undo task, for an
\* undo_action that starts with the action name N: when R is the last root
\* task named N, was pushed by a chat and finished within the recency window,
\* one ConfirmTask is appended to the dialogue stack whose one undo task
\* references R, the store is left as it was, nothing is pushed, and the
\* interpreter is marked finished.
C13_UndoStagesConfirmation ==
    [][(UndoHandled /\ "undo" \in task_objects /\ Head(todo).undo_action # <<>>) =>
          \A R \in RootTasks(db) :
              (/\ db.Tasks[R].action_name = Head(Head(todo).undo_action)
               /\ IsFinished(db, R)
               /\ db.Tasks[R].finished_at >= time - DefaultRecency
               /\ PushedByChat(db, R)
               /\ \A m \in RootTasks(db) \ {R} :
                     db.Tasks[m].action_name = db.Tasks[R].action_name
                         => db.Tasks[m].created_at < db.Tasks[R].created_at)
              => /\ Len(dialogue_stack') = Len(dialogue_stack) + 1
                 /\ dialogue_stack'[Len(dialogue_stack')].kind = "ConfirmTask"
                 /\ dialogue_stack'[Len(dialogue_stack')].undo_tasks
                        = <<[cls |-> "Undo", memid |-> R]>>
                 /\ db' = db /\ pushed' = pushed
                 /\ finished' /\ pc' = "loop" /\ response' = "None"
      ]_vars

\* C13 witness: a confirmation was staged for a finished Move while the
\* ledger also held a root task of another name that was created later.
C13_Witness ==
    /\ Len(dialogue_stack) = 1 /\ pc = "returned" /\ finished
    /\ action_dict.action[1].undo_action = <<"Move", "something">>
    /\ LET R == dialogue_stack[1].undo_tasks[1].memid
       IN  /\ IsFinished(db, R) /\ db.Tasks[R].action_name = "Move"
           /\ \E m \in RootTasks(db) :
                 /\ db.Tasks[m].action_name = "Loop"
                 /\ db.Tasks[m].created_at > db.Tasks[R].created_at

\* C14: handle_undo, on an interpreter that has an undo task, when no root
\* task of the ledger is finished: step returns "Nothing to be undone ...",
\* the interpreter is marked finished, no confirmation is staged and the store
\* is left as it was.
C14_NothingToUndo ==
    [][(UndoHandled /\ "undo" \in task_objects
        /\ \A m \in RootTasks(db) : ~IsFinished(db, m) /\ PushedByChat(db, m)) =>
          /\ pc' = "returned"
          /\ result' = Returned("Nothing to be undone ...")
          /\ finished'
          /\ dialogue_stack' = dialogue_stack
          /\ db' = db /\ pushed' = pushed
      ]_vars

\* ------------------------------------------------------------ the queries
\* The window a call of get_last_finished_root_task works with.
Window(a) == IF a.recency = NoRecency THEN DefaultRecency ELSE a.recency

\* The tasks get_last_finished_root_task is to choose from: finished root
\* tasks, finished no earlier than now minus the window, of the given name.
FinishedRoots(d, t, a) ==
    {m \in RootTasks(d) :
        /\ IsFinished(d, m)
        /\ d.Tasks[m].finished_at >= t - Window(a)
        /\ (a.name # NoText => d.Tasks[m].action_name = a.name)}

\* C15: get_last_finished_root_task raises nothing; a task it returns is
\* finished, is a root, finished no earlier than now minus the window and
\* has the given action name; it returns None when there is no such task.
C15_LastFinishedRootIsFinishedRoot ==
    [][op' = "get_last_finished_root_task" =>
          /\ ret'.kind \in {"TaskNode", "None"}
          /\ (ret'.kind = "TaskNode" => ret'.memid \in FinishedRoots(db, time, arg'))
          /\ (FinishedRoots(db, time, arg') = {} => ret' = RetNone)
      ]_vars

\* C16: when get_last_finished_root_task returns a finished task, no other
\* finished root task inside the window (and of the given name) was marked
\* finished later.  Stated for ledgers whose tasks were all created at
\* different times.
C16_LastFinishedRootFinishedLast ==
    [][(op' = "get_last_finished_root_task" /\ ret'.kind = "TaskNode"
        /\ ret'.memid \in FinishedRoots(db, time, arg')
        /\ \A m, n \in DOMAIN db.Tasks :
              m # n => db.Tasks[m].created_at # db.Tasks[n].created_at) =>
          \A n \in FinishedRoots(db, time, arg') :
              db.Tasks[n].finished_at <= db.Tasks[ret'.memid].finished_at
      ]_vars

\* C17: a task task_stack_find_lowest_instance(names) returns is active
\* (unfinished and unpaused), has its action name in names, and no other such
\* task was created earlier.
C17_FindLowestReturnsActive ==
    [][(op' = "task_stack_find_lowest_instance" /\ ret'.kind = "TaskNode") =>
          LET named == {m \in ActiveTasks(db) : db.Tasks[m].action_name \in arg'.names}
          IN  /\ ret'.memid \in named
              /\ \A n \in named :
                    db.Tasks[ret'.memid].created_at <= db.Tasks[n].created_at
      ]_vars

\* C18: task_stack_find_lowest_instance(names) returns None when no task of
\* the ledger has its action name in names.
C18_FindLowestReturnsNone ==
    [][(op' = "task_stack_find_lowest_instance"
        /\ \A m \in DOMAIN db.Tasks : db.Tasks[m].action_name \notin arg'.names) =>
          ret' = RetNone
      ]_vars

\* C19: task_stack_get_all returns the active tasks, each once, by
\* created_at ascending; a task_stack_peek that follows it returns the last
\* element of the list.
C19_GetAllIsActiveAscending ==
    [][/\ (op' = "task_stack_get_all" =>
             LET l == ret'.list
             IN  /\ ret'.kind = "list"
                 /\ {l[i] : i \in 1..Len(l)} = ActiveTasks(db)
                 /\ Len(l) = Cardinality(ActiveTasks(db))
                 /\ \A i, j \in 1..Len(l) :
                       i < j => db.Tasks[l[i]].created_at <= db.Tasks[l[j]].created_at)
       /\ (op = "task_stack_get_all" /\ ret.list # <<>> /\ op' = "task_stack_peek" =>
             ret' = RetTaskNode(ret.list[Len(ret.list)]))
      ]_vars

\* ------------------------------------------------------------ the lineage
\* The parents the _has_parent_task relations give m, and the tasks below
\* the tasks of S.
Parents(d, m) ==
    {d.Triples[i].obj : i \in {j \in 1..Len(d.Triples) :
        d.Triples[j].pred_text = "_has_parent_task" /\ d.Triples[j].subj = m}}
Children(d, S) == {m \in TaskMemids(d) : Parents(d, m) \cap S # {}}
RECURSIVE Below(_, _)
Below(d, S) ==
    IF Children(d, S) \subseteq S THEN S ELSE Below(d, S \cup Children(d, S))
Descendants(d, m) == Below(d, Children(d, {m}))

\* C20: all_descendent_tasks returns every transitive descendant of the task
\* exactly once, the task itself exactly when include_root is true, sorted by
\* finished_at; get_parent_task returns the parent the task was pushed with
\* and None for a root.  (For P and its one child C: [C], and P.)
C20_DescendantsAndParent ==
    [][/\ (op' = "all_descendent_tasks" =>
             LET l == ret'.list
                 S == Descendants(db, arg'.memid)
                        \cup (IF arg'.flag THEN {arg'.memid} ELSE {})
             IN  /\ ret'.kind = "list"
                 /\ {l[i] : i \in 1..Len(l)} = S
                 /\ Len(l) = Cardinality(S)
                 /\ \A i, j \in 1..Len(l) :
                       i < j => db.Tasks[l[i]].finished_at <= db.Tasks[l[j]].finished_at)
       /\ (op' = "get_parent_task" =>
             IF Parents(db, arg'.memid) = {} THEN ret' = RetNone
             ELSE ret'.kind = "TaskNode" /\ Parents(db, arg'.memid) = {ret'.memid})
      ]_vars

\* The rows of Triples that give m a parent.
ParentRows(d, m) ==
    {i \in 1..Len(d.Triples) :
        d.Triples[i].pred_text = "_has_parent_task" /\ d.Triples[i].subj = m}

\* C21: when a task has _has_parent_task relations to two different tasks,
\* get_parent_task and get_root_task on it fail with the multiple-parents
\* AssertionError; the add_triple that made the second relation was accepted.
C21_SecondParentIsFlagged ==
    [][(op' \in {"get_parent_task", "get_root_task"}
        /\ Cardinality(Parents(db, arg'.memid)) >= 2) =>
          ret' = RetRaise("AssertionError")
      ]_vars

C21_Witness ==
    /\ op = "get_root_task"
    /\ Cardinality(Parents(db, arg.memid)) >= 2
    /\ ret = RetRaise("AssertionError")

\* The tasks above m: its parents, their parents, and so on.
RECURSIVE Above(_, _)
Above(d, S) ==
    LET up == UNION {Parents(d, m) : m \in S}
    IN  IF up \subseteq S THEN S ELSE Above(d, S \cup up)
Ancestors(d, m) == Above(d, Parents(d, m))

\* C22: whatever tasks were pushed, every task has at most one
\* _has_parent_task relation and is not among its own ancestors, and
\* get_root_task and all_descendent_tasks come to an end for every task.
C22_ParentRelationIsForest ==
    /\ \A m \in TaskMemids(db) :
          /\ Cardinality(ParentRows(db, m)) <= 1
          /\ m \notin Ancestors(db, m)
    /\ \A m \in DOMAIN db.Tasks :
          /\ TaskNode_get_root_task(db, m).kind # "unbounded"
          /\ TaskNode_all_descendent_tasks(db, m, TRUE).kind \in {"list", "TypeError"}

C22_Witness ==
    /\ op = "get_root_task"
    /\ ret.kind = "TaskNode"
    /\ ret.memid # arg.memid
    /\ Parents(db, arg.memid) # {ret.memid}

\* The rows of Triples with the given subject, predicate and object.
HasTriple(d, subj, pred_text, obj) ==
    \E i \in 1..Len(d.Triples) :
        /\ d.Triples[i].subj = subj
        /\ d.Triples[i].pred_text = pred_text
        /\ d.Triples[i].obj = obj

\* C23: snapshot on a node e that has its row succeeds and leaves e's
\* Memories row and attribute row as they were; exactly one new memory s has
\* is_snapshot set, it has e's node type and a copy of e's attribute row, and
\* the store holds (s, _archive_of, e) and (e, _has_archive, s).  No memory
\* get_recent_entities returns is a snapshot.
C23_SnapshotCopiesAndLinks ==
    [][/\ (op' = "snapshot" /\ arg'.memid \in DOMAIN db[Node_TABLE[arg'.name]]
          /\ arg'.memid \in DOMAIN db.Memories =>
             LET e == arg'.memid
                 table == Node_TABLE[arg'.name]
                 new == {m \in DOMAIN db'.Memories \ DOMAIN db.Memories :
                            db'.Memories[m].is_snapshot}
             IN  /\ ret' = RetNone
                 /\ e \in DOMAIN db'.Memories /\ db'.Memories[e] = db.Memories[e]
                 /\ e \in DOMAIN db'[table] /\ db'[table][e] = db[table][e]
                 /\ Cardinality(new) = 1
                 /\ \A s \in new :
                       /\ s \in DOMAIN db'[table] /\ db'[table][s] = db[table][e]
                       /\ db'.Memories[s].node_type = Node_NODE_TYPE[arg'.name]
                       /\ HasTriple(db', s, "_archive_of", e)
                       /\ HasTriple(db', e, "_has_archive", s))
       /\ (op' = "get_recent_entities" /\ ret'.kind = "list" =>
             \A i \in 1..Len(ret'.list) : ret'.list[i] \notin Snapshots(db'))
      ]_vars

C23_Witness ==
    /\ op = "get_recent_entities"
    /\ arg.name = "Task"
    /\ ret.kind = "list" /\ ret.list # <<>>
    /\ \E s \in Snapshots(db) :
          /\ db.Memories[s].node_type = "Task"
          /\ db.Memories[s].attended_time >= time - arg.recency

\* C24: no ledger query returns a snapshot, and snapshotting a task leaves
\* the set of active tasks as it was.
C24_LedgerQueriesSkipSnapshots ==
    [][/\ (op' \in {"task_stack_peek", "task_stack_pop", "task_stack_find_lowest_instance",
                    "get_last_finished_root_task"} /\ ret'.kind = "TaskNode" =>
             ret'.memid \notin Snapshots(db'))
       /\ (op' = "task_stack_get_all" /\ ret'.kind = "list" =>
             \A i \in 1..Len(ret'.list) : ret'.list[i] \notin Snapshots(db'))
       /\ (op' \in {"snapshot", "update_recently_attended"} =>
             ActiveTasks(db') = ActiveTasks(db))
      ]_vars

\* What C25 says of an accepted add_triple(subj=s, pred_text=p, obj_text=X):
\* get_triples(subj=s, pred_text=p) then has (s, p, X).
RoundTrip(d, a) ==
    LET l == get_triples_tuples(get_triples(d, a.memid, NoMemid, NoText, a.name, NoText))
    IN  \E i \in 1..Len(l) :
            l[i] = [subj |-> a.memid, pred_text |-> a.name,
                    obj |-> NoMemid, obj_text |-> a.obj_text]

\* C25 as claimed: after add_triple(subj=s, pred_text=p, obj_text=X), for any
\* memory s, get_triples(subj=s, pred_text=p) contains (s, p, X) and exactly
\* one NamedAbstraction memory is named X.
C25_RoundTripForAnySubject ==
    [][(op' = "add_triple" /\ ret' = RetNone
        /\ arg'.memid # NoMemid /\ arg'.obj_text # NoText) =>
          /\ RoundTrip(db', arg')
          /\ Cardinality(Named(db', arg'.obj_text)) = 1
      ]_vars

\* C25: after add_triple(subj=s, pred_text=p, obj_text=X) for a memory s that
\* is no snapshot, get_triples(subj=s, pred_text=p) contains (s, p, X) with
\* the text on the object side; after any add_triple exactly one
\* NamedAbstraction memory is named X, and no two have the same name.
C25_RoundTripForLiveSubject ==
    [][(op' = "add_triple" /\ ret' = RetNone
        /\ arg'.memid # NoMemid /\ arg'.obj_text # NoText) =>
          /\ (arg'.memid \notin Snapshots(db') => RoundTrip(db', arg'))
          /\ Cardinality(Named(db', arg'.obj_text)) = 1
          /\ \A name \in Texts \cup PredTexts : Cardinality(Named(db', name)) <= 1
      ]_vars

\* A second add with the text X has reused the NamedAbstraction of X.
C25_Witness ==
    /\ op = "add_triple" /\ ret = RetNone
    /\ arg.memid # NoMemid /\ arg.memid \notin Snapshots(db)
    /\ arg.obj_text = "X"
    /\ \E i, j \in 1..Len(db.Triples) :
          /\ db.Triples[i].pred_text # db.Triples[j].pred_text
          /\ db.Triples[i].obj_text = "X" /\ db.Triples[j].obj_text = "X"
          /\ db.Triples[i].obj = db.Triples[j].obj
    /\ RoundTrip(db, arg)

\* C26: add_triple inserts exactly when one of subj and subj_text and one of
\* obj and obj_text is given; any other call raises AssertionError and leaves
\* the store, its relations and NamedAbstractions, as it was.  get_triples
\* with no filter raises AssertionError.
C26_ExactlyOneArm ==
    [][/\ (op' = "add_triple" =>
             LET one_subj == (arg'.memid # NoMemid) # (arg'.subj_text # NoText)
                 one_obj == (arg'.obj # NoMemid) # (arg'.obj_text # NoText)
             IN  IF one_subj /\ one_obj
                 THEN ret' = RetNone /\ Len(db'.Triples) = Len(db.Triples) + 1
                 ELSE ret' = RetRaise("AssertionError") /\ db' = db)
       /\ (op' = "get_triples" /\ arg'.memid = NoMemid /\ arg'.subj_text = NoText
              /\ arg'.name = NoText /\ arg'.obj = NoMemid /\ arg'.obj_text = NoText =>
             ret' = RetRaise("AssertionError"))
      ]_vars

C26_Witness ==
    /\ op = "add_triple"
    /\ arg.memid # NoMemid /\ arg.subj_text # NoText
    /\ ret = RetRaise("AssertionError")
    /\ Len(db.Triples) > 2

\* The relation that tags memory id as forgotten.
IsForgottenTag(r, id) ==
    r.subj = id /\ r.pred_text = "has_tag" /\ r.obj_text = "_forgotten"

\* C27: after forget(id, hard=False) on a memory of the store the relation
\* (id, has_tag, "_forgotten") is in the store; no other relation, no row of
\* Memories and no attribute row has changed, and get_mem_by_id(id) gives
\* what it gave before, the node of a task or of a NamedAbstraction.
C27_SoftForgetOnlyTags ==
    [][(op' = "forget" /\ ~arg'.flag) =>
          LET id == arg'.memid
          IN  /\ \A m \in DOMAIN db.Memories :
                    m \in DOMAIN db'.Memories /\ db'.Memories[m] = db.Memories[m]
              /\ db'.Tasks = db.Tasks /\ db'.Chats = db.Chats
              /\ \A m \in DOMAIN db.NamedAbstractions :
                    db'.NamedAbstractions[m] = db.NamedAbstractions[m]
              /\ \E i \in 1..Len(db'.Triples) : IsForgottenTag(db'.Triples[i], id)
              /\ SelectSeq(db'.Triples, LAMBDA r : ~IsForgottenTag(r, id))
                    = SelectSeq(db.Triples, LAMBDA r : ~IsForgottenTag(r, id))
              /\ get_mem_by_id(db', id, NoText) = get_mem_by_id(db, id, NoText)
              /\ (db.Memories[id].node_type \in {"Task", "NamedAbstraction"}
                    /\ (db.Memories[id].node_type = "Task" => id \in DOMAIN db.Tasks)
                  => get_mem_by_id(db', id, NoText).memid = id)
      ]_vars

C27_Witness ==
    /\ op = "forget" /\ ~arg.flag
    /\ arg.memid \in DOMAIN db.Tasks
    /\ get_mem_by_id(db, arg.memid, NoText) = RetTaskNode(arg.memid)
    /\ \E i \in 1..Len(db.Triples) :
          db.Triples[i].pred_text = "_has_parent_task" /\ db.Triples[i].obj = arg.memid

\* C28: forget(id, hard=True) removes the Memories row of id and every
\* relation with id as subject or as object; the other rows of Memories, the
\* attribute rows of the other memories and the other relations stay as they
\* were, in their order.
C28_HardForgetRemovesRowAndRelations ==
    [][(op' = "forget" /\ arg'.flag) =>
          LET id == arg'.memid
          IN  /\ DOMAIN db'.Memories = DOMAIN db.Memories \ {id}
              /\ \A m \in DOMAIN db'.Memories : db'.Memories[m] = db.Memories[m]
              /\ \A m \in DOMAIN db.Tasks \ {id} :
                    m \in DOMAIN db'.Tasks /\ db'.Tasks[m] = db.Tasks[m]
              /\ \A m \in DOMAIN db.NamedAbstractions \ {id} :
                    m \in DOMAIN db'.NamedAbstractions
                    /\ db'.NamedAbstractions[m] = db.NamedAbstractions[m]
              /\ \A i \in 1..Len(db'.Triples) :
                    db'.Triples[i].subj # id /\ db'.Triples[i].obj # id
              /\ db'.Triples = SelectSeq(db.Triples, LAMBDA r : r.subj # id /\ r.obj # id)
      ]_vars

\* The parent of a task was forgotten, and with it the relation from the
\* child, which is still in the store.
C28_Witness ==
    /\ op = "forget" /\ arg.flag
    /\ (0..(db.uuid - 1)) \ DOMAIN db.Memories = {arg.memid}
    /\ Named(db, "_has_parent_task") # {}
    /\ \A i \in 1..Len(db.Triples) : db.Triples[i].pred_text # "_has_parent_task"
    /\ \E m \in DOMAIN db.Tasks : m > arg.memid

\* C29: get_mem_by_id and get_node_from_memid on a memid that has no row in
\* Memories return a value and raise nothing.
C29_UnknownMemidIsNotFound ==
    [][(op' \in {"get_mem_by_id", "get_node_from_memid"}
        /\ arg'.memid \notin DOMAIN db.Memories) =>
          ret'.kind \in {"None", "MemoryNode", "str"}
      ]_vars

\* What every task_stack_push does, whatever its outcome: one new Tasks row,
\* under the memid the store gives next, created now, unfinished and
\* unpaused; the rows of the other tasks as they were; a _has_parent_task
\* relation from the new task to parent_memid exactly when one is given.
PushCreatesRow(d, t, d2, a) ==
    LET new == d.uuid
    IN  /\ DOMAIN d2.Tasks = DOMAIN d.Tasks \cup {new}
        /\ new \notin DOMAIN d.Tasks
        /\ d2.Tasks[new].created_at = t
        /\ d2.Tasks[new].finished_at < 0
        /\ d2.Tasks[new].paused = FALSE
        /\ d2.Tasks[new].action_name = a.name
        /\ \A m \in DOMAIN d.Tasks : d2.Tasks[m] = d.Tasks[m]
        /\ Parents(d2, new) = (IF a.obj # NoMemid THEN {a.obj} ELSE {})
        /\ Cardinality(ParentRows(d2, new)) = (IF a.obj # NoMemid THEN 1 ELSE 0)

\* The chats with a chat_effect_ relation to task m.
EffectOf(d, m) ==
    {d.Triples[i].subj : i \in {j \in 1..Len(d.Triples) :
        d.Triples[j].pred_text = "chat_effect_" /\ d.Triples[j].obj = m}}

\* The most recent chats of a speaker other than the agent.
IncomingChats(d) ==
    LET rows == {m \in DOMAIN d.Chats : d.Chats[m].speaker # self_memid}
    IN  {m \in rows : \A n \in rows : d.Chats[n].time <= d.Chats[m].time}

\* C30 as claimed: every task_stack_push creates the row and the parent
\* relation as above, and a chat_effect_ relation from the most recent
\* incoming chat to the new task exactly when chat_effect is true.
C30_PushAddsChatEffectIffAsked ==
    [][op' = "task_stack_push" =>
          /\ PushCreatesRow(db, time, db', arg')
          /\ (arg'.flag => \E c \in IncomingChats(db) : EffectOf(db', db.uuid) = {c})
          /\ (~arg'.flag => EffectOf(db', db.uuid) = {})
      ]_vars

\* C30: every task_stack_push creates the row and the parent relation as
\* above.  With chat_effect true and an incoming chat in the store it adds a
\* chat_effect_ relation from a most recent incoming chat to the new task and
\* returns the task; with chat_effect true and no incoming chat it raises
\* AssertionError, the row and the parent relation having been written, and
\* adds no chat_effect_ relation; with chat_effect false it adds none.
C30_PushCreatesRowAndRelations ==
    [][op' = "task_stack_push" =>
          /\ PushCreatesRow(db, time, db', arg')
          /\ (arg'.flag /\ IncomingChats(db) # {} =>
                /\ \E c \in IncomingChats(db) : EffectOf(db', db.uuid) = {c}
                /\ ret' = RetTaskNode(db.uuid))
          /\ (arg'.flag /\ IncomingChats(db) = {} =>
                /\ EffectOf(db', db.uuid) = {}
                /\ ret' = RetRaise("AssertionError"))
          /\ (~arg'.flag =>
                /\ EffectOf(db', db.uuid) = {}
                /\ ret' = RetTaskNode(db.uuid))
      ]_vars

C30_Witness ==
    /\ op = "task_stack_push"
    /\ arg.flag /\ arg.obj # NoMemid
    /\ ret.kind = "TaskNode"
    /\ EffectOf(db, ret.memid) # {}
    /\ Parents(db, ret.memid) = {arg.obj}
    /\ \E m \in DOMAIN db.Tasks : db.Tasks[m].finished_at >= 0

\* C31: handle_stop pauses every unfinished task, marks the interpreter
\* finished, and answers "Stopping.  What should I do next?" exactly when a
\* task was active (unfinished and not paused) before the call, "I am not
\* doing anything" otherwise.
C31_StopRespondsByActive ==
    [][(Handling("STOP") /\ todo' # todo) =>
            /\ finished'
            /\ \A m \in UnfinishedTasks(db') : db'.Tasks[m].paused
            /\ response' = (IF ActiveTasks(db) # {}
                            THEN "Stopping.  What should I do next?"
                            ELSE "I am not doing anything")]_vars

\* The action types of the command's list, in the order the list has now.
TypesOf(ad) == [i \in 1..Len(ad.action_sequence) |-> ad.action_sequence[i].action_type]

C33_MoveOrLoopPushedOnce ==
    [][(Handling("MOVE") /\ todo' # todo) =>
          LET d == Head(todo)
              new == DOMAIN db'.Tasks \ DOMAIN db.Tasks
          IN  /\ Cardinality(new) = 1
              /\ pushed' = Append(pushed, db.uuid)
              /\ new = {db.uuid}
              /\ db'.Tasks[db.uuid].action_name =
                    (IF d.stop_condition THEN "Loop" ELSE "Move")
              /\ db'.Tasks[db.uuid].pickled =
                    (IF d.stop_condition THEN "Loop" ELSE "Move")
              /\ \A m \in DOMAIN db.Tasks : db'.Tasks[m] = db.Tasks[m]
              /\ IsRoot(db', db.uuid)
              /\ \E c \in IncomingChats(db) : EffectOf(db', db.uuid) = {c}
              /\ finished'
      ]_vars

\* One step has handled a MOVE with a stop_condition and a MOVE without:
\* a Loop and a Move were pushed.
C33_Witness ==
    /\ pc = "returned" /\ result.exc = "" /\ finished
    /\ Len(pushed) = 2
    /\ {db.Tasks[pushed[1]].action_name, db.Tasks[pushed[2]].action_name} = {"Move", "Loop"}
    /\ \A k \in 1..2 : EffectOf(db, pushed[k]) # {}

\* C34: when a handler raised NextDialogueStep, step has returned (None, None),
\* the interpreter is not finished and step can be invoked on it again; when
\* a handler raised ErrorWithResponse, step has returned the error's chat and
\* the interpreter is finished.
C34_SuspensionLeavesUnfinished ==
    /\ (pc = "returned" /\ caught = "NextDialogueStep") =>
            /\ result = Returned(NoChat)
            /\ ~finished
            /\ (nstep < MaxSteps => ENABLED StepBegin)
    /\ (pc = "returned" /\ caught = "ErrorWithResponse") =>
            /\ result.exc = ""
            /\ result.chat # NoChat
            /\ finished

C36_ConcurrentPopsSerialize ==
    \A c1, c2 \in Threads :
        c1 # c2 =>
            /\ ~(/\ poppers[c1].pc = "returned" /\ poppers[c2].pc = "returned"
                 /\ poppers[c1].mem = poppers[c2].mem)
            /\ ~(poppers[c1].wrote # NoMemid /\ poppers[c1].wrote = poppers[c2].wrote)

\* C37: a task_stack_push with chat_effect that finds no incoming chat fails,
\* and leaves the ledger as it was: no new Task row, no new active task, no
\* new relation.
C37_FailedPushLeavesLedgerUnchanged ==
    [][(op' = "task_stack_push" /\ arg'.flag /\ IncomingChats(db) = {}) =>
          /\ ret'.kind = "AssertionError"
          /\ db'.Tasks = db.Tasks
          /\ ActiveTasks(db') = ActiveTasks(db)
          /\ db'.Triples = db.Triples
      ]_vars

\* C38: step leaves the order of the command's action_sequence as it is, and
\* a step invoked again after a suspension handles the actions in the order
\* of the invocation before: its list starts with the actions that one
\* handled, in the same order.
C38_ResumedStepKeepsOrder ==
    [][/\ (pc # "none" => action_dict'.action_sequence = action_dict.action_sequence)
       /\ ((pc = "returned" /\ pc' = "loop") =>
                \A k \in 1..Len(calls) : todo'[k].idx = calls[k])
      ]_vars

\* C39: a memory made by add_chat is recorded with the kind Chat;
\* get_recent_entities(kind) returns only memories made as that kind, so
\* for the kind Time it returns no chat; get_mem_by_id on the memid of a
\* chat gives a chat node.
C39_ChatsAreKindChat ==
    /\ \A m \in DOMAIN db.Chats : db.Memories[m].node_type = "Chat"
    /\ (op = "get_recent_entities" /\ ret.kind = "list" /\ arg.name = "Time") =>
            \A k \in 1..Len(ret.list) : ret.list[k] \notin DOMAIN db.Chats
    /\ (op = "get_recent_entities" /\ ret.kind = "list" /\ arg.name = "Chat") =>
            \A m \in DOMAIN db.Chats :
                db.Memories[m].attended_time >= time - arg.recency =>
                    \E k \in 1..Len(ret.list) : ret.list[k] = m
    /\ (op = "get_mem_by_id" /\ arg.memid \in DOMAIN db.Chats /\ arg.name = NoText) =>
            ret.kind = "ChatNode"

\* C40: handle_undo, on an interpreter that has an undo task, completes the
\* turn whatever task get_last_finished_root_task returns, pushed with
\* chat_effect or without: it stages a ConfirmTask and marks the interpreter
\* finished, or step returns an error response and the interpreter is
\* finished; no other exception leaves step.
C40_UndoCompletesTurn ==
    [][(UndoHandled /\ "undo" \in task_objects) =>
              \/ /\ pc' = "loop"
                 /\ finished'
                 /\ Len(dialogue_stack') = Len(dialogue_stack) + 1
                 /\ dialogue_stack'[Len(dialogue_stack')].kind = "ConfirmTask"
              \/ /\ pc' = "returned"
                 /\ caught' = "ErrorWithResponse"
                 /\ result'.exc = "" /\ result'.chat # NoChat
                 /\ finished'
      ]_vars

====
